---- MODULE Spec2Model ----
(***************************************************************************)
(* Model of todo-plus: the persisted keys in browser localStorage, the     *)
(* application state kept by the reducer of TodoContext, and the store     *)
(* handles (useLocalStorage) that every component calling useTasks or      *)
(* useCategories owns.                                                     *)
(*                                                                         *)
(* Strings are sequences of one-character strings.  A Date is a record     *)
(* [kind, ms]: kind "Date" for an in-memory Date object, "iso" for the     *)
(* string JSON.stringify turns it into, "null" for null.  The write-only   *)
(* timestamp updatedAt, which no operation reads, and the display fields   *)
(* color, description and createdAt of a category are left out of the      *)
(* records.                                                                *)
(***************************************************************************)
EXTENDS Integers, Sequences, FiniteSets, TLC

\* ------------------------------------------------------------------ bounds
MaxTasks == 4
MaxCategories == 1
MaxSteps == 4
MaxViewTasks == 3
MaxDispatches == 2

\* ------------------------------------------------------- program constants
TitleMaxLength == 100
DescriptionMaxLength == 500
CategoryNameMaxLength == 50
MaxTagCount == 10

\* Date.now() of the k-th creation: far above any list index
DateNow(k) == 1000 * 1000 + k

\* ------------------------------------------------------------------- data
DEFAULT == "default"
ALL == "all"
Statuses == {"todo", "in-progress", "completed"}
Priorities == {"high", "medium", "low"}

NullDate == [kind |-> "null", ms |-> 0]
NewDate(k) == [kind |-> "Date", ms |-> DateNow(k)]
IsoDate(d) == IF d.kind = "Date" THEN [kind |-> "iso", ms |-> d.ms] ELSE d
\* new Date(x).getTime() for a Date or an ISO string
GetTime(d) == d.ms

Range(s) == {s[i] : i \in 1..Len(s)}
Ids(list) == {list[i].id : i \in 1..Len(list)}
RECURSIVE SelectSeqBy(_, _)
\* Array.prototype.filter with the set of kept elements given by keep
SelectSeqBy(s, keep) ==
  IF s = <<>> THEN <<>>
  ELSE IF Head(s) \in keep THEN <<Head(s)>> \o SelectSeqBy(Tail(s), keep)
       ELSE SelectSeqBy(Tail(s), keep)
\* Array.prototype.findIndex(x => x.id === id), 0 for -1
FindIndex(list, id) ==
  IF \E i \in 1..Len(list) : list[i].id = id
  THEN CHOOSE i \in 1..Len(list) :
         list[i].id = id /\ \A j \in 1..(i - 1) : list[j].id # id
  ELSE 0

\* ----------------------------------------------------------------- strings
Alphabet == <<" ", "a", "A", "b", "B", "s", "S", "t", "T">>
CharRank(c) == CHOOSE i \in 1..Len(Alphabet) : Alphabet[i] = c
LowerOf(c) ==
  CASE c = "A" -> "a" [] c = "B" -> "b" [] c = "S" -> "s" [] c = "T" -> "t"
    [] OTHER -> c
ToLowerCase(s) == [i \in 1..Len(s) |-> LowerOf(s[i])]
RECURSIVE TrimStart(_)
TrimStart(s) ==
  IF s # <<>> /\ Head(s) = " " THEN TrimStart(Tail(s)) ELSE s
RECURSIVE TrimEnd(_)
TrimEnd(s) ==
  IF s # <<>> /\ s[Len(s)] = " " THEN TrimEnd(SubSeq(s, 1, Len(s) - 1)) ELSE s
Trim(s) == TrimEnd(TrimStart(s))
Includes(s, q) ==
  \E i \in 1..(Len(s) - Len(q) + 1) : SubSeq(s, i, i + Len(q) - 1) = q
RECURSIVE LocaleCompare(_, _)
LocaleCompare(a, b) ==
  IF a = <<>> /\ b = <<>> THEN 0
  ELSE IF a = <<>> THEN -1
  ELSE IF b = <<>> THEN 1
  ELSE IF CharRank(Head(a)) < CharRank(Head(b)) THEN -1
  ELSE IF CharRank(Head(a)) > CharRank(Head(b)) THEN 1
  ELSE LocaleCompare(Tail(a), Tail(b))

\* ------------------------------------------------------------ types/index
\* (mutant) the creation time is written to completedAt as well
createTaskCompletedNow(input, k) ==
  [id |-> k,
   title |-> input.title,
   description |-> input.description,
   priority |-> input.priority,
   category |-> input.category,
   status |-> input.status,
   completionComment |-> input.completionComment,
   tags |-> input.tags,
   createdAt |-> NewDate(k),
   completedAt |-> NewDate(k),
   order |-> DateNow(k)]

\* (mutant) every task is given the same identifier
createTaskSameId(input, k) ==
  [id |-> 1,
   title |-> input.title,
   description |-> input.description,
   priority |-> input.priority,
   category |-> input.category,
   status |-> input.status,
   completionComment |-> input.completionComment,
   tags |-> input.tags,
   createdAt |-> NewDate(k),
   completedAt |-> NullDate,
   order |-> DateNow(k)]

createTask(input, k) ==
  [id |-> k,
   title |-> input.title,
   description |-> input.description,
   priority |-> input.priority,
   category |-> input.category,
   status |-> input.status,
   completionComment |-> input.completionComment,
   tags |-> input.tags,
   createdAt |-> NewDate(k),
   completedAt |-> NullDate,
   order |-> DateNow(k)]

CategoryId(k) == <<"c1", "c2", "c3", "c4">>[k]
createCategory(name, k) == [id |-> CategoryId(k), name |-> name, taskCount |-> 0]

defaultCategory == [id |-> DEFAULT, name |-> <<"S">>, taskCount |-> 0]
defaultSettings == [sortBy |-> "createdAt", sortOrder |-> "desc", showCompleted |-> "true"]
emptySettings == [sortBy |-> "undefined", sortOrder |-> "undefined", showCompleted |-> "undefined"]

\* Spread of a partial update over a task (UpdateTaskInput has no id, createdAt)
MergeTask(task, updates) ==
  [f \in DOMAIN task |-> IF f \in DOMAIN updates THEN updates[f] ELSE task[f]]

\* ------------------------------------------------------------- JSON values
StringifyTask(t) ==
  [t EXCEPT !.createdAt = IsoDate(@), !.completedAt = IsoDate(@)]

\* --------------------------------------------------- context/TodoContext
initialUIState ==
  [isTaskFormOpen |-> FALSE,
   isCategoryManagerOpen |-> FALSE,
   editingTask |-> <<>>,
   filter |-> [status |-> ALL, category |-> ALL, priority |-> ALL, searchQuery |-> <<>>]]

initialState ==
  [tasks |-> <<>>, categories |-> <<>>, settings |-> defaultSettings, ui |-> initialUIState]

\* An omitted optional string argument
UndefinedString == <<"undefined">>
OrEmpty(c) == IF c = UndefinedString \/ c = <<>> THEN <<>> ELSE c

\* (mutant) the payload replaces the filter: fields it leaves out fall back to
\* their initial values
MergeFilterReplacing(filter, updates) ==
  [f \in DOMAIN filter |->
     IF f \in DOMAIN updates THEN updates[f] ELSE initialUIState.filter[f]]

\* Spread of a partial filter over the current filter
MergeFilter(filter, updates) ==
  [f \in DOMAIN filter |-> IF f \in DOMAIN updates THEN updates[f] ELSE filter[f]]

\* appReducer(state, action); k is the clock that new Date() reads
appReducer(state, action, k) ==
  CASE action.type = "SET_TASKS" ->
         [state EXCEPT !.tasks = action.payload]
    [] action.type = "ADD_TASK" ->
         [state EXCEPT !.tasks = Append(@, action.payload)]
    [] action.type = "UPDATE_TASK" ->
         [state EXCEPT !.tasks =
            [i \in 1..Len(@) |->
               IF @[i].id = action.payload.id
               THEN MergeTask(@[i], action.payload.updates)
               ELSE @[i]]]
    [] action.type = "DELETE_TASK" ->
         [state EXCEPT !.tasks =
            SelectSeqBy(@, {t \in Range(@) : t.id # action.payload})]
    [] action.type = "REORDER_TASKS" ->
         [state EXCEPT !.tasks = action.payload]
    [] action.type = "UPDATE_TASK_STATUS" ->
         [state EXCEPT !.tasks =
            [i \in 1..Len(@) |->
               IF @[i].id = action.payload.id
               THEN [@[i] EXCEPT
                       !.status = action.payload.status,
                       !.completionComment =
                          IF action.payload.status = "completed"
                          THEN OrEmpty(action.payload.completionComment)
                          ELSE @,
                       !.completedAt =
                          IF action.payload.status = "completed"
                          THEN NewDate(k) ELSE NullDate]
               ELSE @[i]]]
    [] action.type = "SET_CATEGORIES" ->
         [state EXCEPT !.categories = action.payload]
    [] action.type = "ADD_CATEGORY" ->
         [state EXCEPT !.categories = Append(@, action.payload)]
    [] action.type = "UPDATE_CATEGORY" ->
         [state EXCEPT !.categories =
            [i \in 1..Len(@) |->
               IF @[i].id = action.payload.id THEN action.payload ELSE @[i]]]
    [] action.type = "DELETE_CATEGORY" ->
         [state EXCEPT !.categories =
            SelectSeqBy(@, {c \in Range(@) : c.id # action.payload})]
    [] action.type = "SET_SETTINGS" ->
         [state EXCEPT !.settings = action.payload]
    [] action.type = "UPDATE_SETTINGS" ->
         [state EXCEPT !.settings =
            [f \in DOMAIN @ |->
               IF f \in DOMAIN action.payload THEN action.payload[f] ELSE @[f]]]
    [] action.type = "SET_UI_STATE" ->
         [state EXCEPT !.ui =
            [f \in DOMAIN @ |->
               IF f \in DOMAIN action.payload THEN action.payload[f] ELSE @[f]]]
    [] action.type = "OPEN_TASK_FORM" ->
         [state EXCEPT !.ui.isTaskFormOpen = TRUE,
                       !.ui.editingTask = action.payload]
    [] action.type = "CLOSE_TASK_FORM" ->
         [state EXCEPT !.ui.isTaskFormOpen = FALSE, !.ui.editingTask = <<>>]
    [] action.type = "OPEN_CATEGORY_MANAGER" ->
         [state EXCEPT !.ui.isCategoryManagerOpen = TRUE]
    [] action.type = "CLOSE_CATEGORY_MANAGER" ->
         [state EXCEPT !.ui.isCategoryManagerOpen = FALSE]
    [] action.type = "SET_FILTER" ->
         [state EXCEPT !.ui.filter = MergeFilter(@, action.payload)]
    [] OTHER -> state

\* The dispatches of one handler, reduced in order
RECURSIVE Dispatch(_, _, _)
Dispatch(state, actions, k) ==
  IF actions = <<>> THEN state
  ELSE Dispatch(appReducer(state, Head(actions), k), Tail(actions), k)

\* TodoProvider's task-count effect: one run
CountTasks(tasks, categoryId) ==
  Cardinality({i \in 1..Len(tasks) : tasks[i].category = categoryId})
\* (mutant) the counts are left as they are
updatedCategoriesUncounted(state) == state.categories

updatedCategories(state) ==
  [i \in 1..Len(state.categories) |->
     [state.categories[i] EXCEPT !.taskCount = CountTasks(state.tasks, state.categories[i].id)]]
\* (mutant) the mapped array is compared by reference: it is always a new one
hasChangesByReference(state) == TRUE

hasChanges(state) ==
  \E i \in 1..Len(state.categories) :
     updatedCategories(state)[i].taskCount # state.categories[i].taskCount
\* The effect re-runs after every render that changed tasks or categories
RECURSIVE taskCountEffect(_)
taskCountEffect(state) ==
  IF hasChanges(state)
  THEN taskCountEffect(
         appReducer(state, [type |-> "SET_CATEGORIES", payload |-> updatedCategories(state)], 0))
  ELSE state

\* -------------------------------------------------------- hooks/useStorage
\* A key of localStorage (or a field of a document, or a file): absent, the
\* JSON value of its text, or a text that JSON.parse rejects
Absent == [has |-> FALSE, json |-> FALSE, val |-> <<>>]
Stored(value) == [has |-> TRUE, json |-> TRUE, val |-> value]
Unparsable == [has |-> TRUE, json |-> FALSE, val |-> <<>>]
\* JSON.stringify of a list of tasks or of categories
JSONStringify(list) ==
  [i \in 1..Len(list) |->
     IF "createdAt" \in DOMAIN list[i] THEN StringifyTask(list[i]) ELSE list[i]]
\* (mutant) the stored text is never used
ReadStoredAlwaysDefault(entry, initialValue) == initialValue

\* useLocalStorage's initializer: item ? JSON.parse(item) : initialValue, and
\* initialValue when JSON.parse throws
ReadStored(entry, initialValue) ==
  IF entry.has /\ entry.json THEN entry.val ELSE initialValue
\* useLocalStorage's setStoredValue: the handle's new value and the key's new text
setStoredValue(valueToStore) ==
  [value |-> valueToStore, item |-> Stored(JSONStringify(valueToStore))]

\* (mutant) setItem throws before setValue has run
setItemThrowsBeforeSetValue(stored, previous) == previous

\* setStoredValue when localStorage.setItem throws (the quota is exceeded):
\* setValue has run, the catch block logs, the key keeps its text
setItemThrows(stored, previous) == [value |-> stored.value, item |-> previous.item]

\* (mutant) the task is appended whether or not its id is in the list
saveTaskAppending(currentTasks, task) == setStoredValue(Append(currentTasks, task))

\* useTaskStorage
saveTask(currentTasks, task) ==
  LET existingIndex == FindIndex(currentTasks, task.id)
  IN setStoredValue(IF existingIndex >= 1
                    THEN [currentTasks EXCEPT ![existingIndex] = task]
                    ELSE Append(currentTasks, task))

deleteTaskFromStorage(currentTasks, taskId) ==
  setStoredValue(SelectSeqBy(currentTasks, {t \in Range(currentTasks) : t.id # taskId}))

\* (mutant) completedAt is stamped but never cleared
updateTaskStatusKeepingDate(currentTasks, taskId, status, completionComment, k) ==
  setStoredValue(
    [i \in 1..Len(currentTasks) |->
       IF currentTasks[i].id = taskId
       THEN [currentTasks[i] EXCEPT
               !.status = status,
               !.completionComment = IF status = "completed" THEN completionComment ELSE @,
               !.completedAt = IF status = "completed" THEN NewDate(k) ELSE @]
       ELSE currentTasks[i]])

\* The default of updateTaskStatus' third parameter (completionComment = '')
completionCommentDefault(completionComment) ==
  IF completionComment = UndefinedString THEN <<>> ELSE completionComment

updateTaskStatusInStorage(currentTasks, taskId, status, completionComment, k) ==
  setStoredValue(
    [i \in 1..Len(currentTasks) |->
       IF currentTasks[i].id = taskId
       THEN [currentTasks[i] EXCEPT
               !.status = status,
               !.completionComment = IF status = "completed" THEN completionComment ELSE @,
               !.completedAt = IF status = "completed" THEN NewDate(k) ELSE NullDate]
       ELSE currentTasks[i]])

reorderTasks(reorderedTasks) ==
  setStoredValue(
    [i \in 1..Len(reorderedTasks) |-> [reorderedTasks[i] EXCEPT !.order = i - 1]])

\* useCategoryStorage; item is the key's text before the call
saveCategory(currentCategories, category) ==
  LET existingIndex == FindIndex(currentCategories, category.id)
  IN setStoredValue(IF existingIndex >= 1
                    THEN [currentCategories EXCEPT ![existingIndex] = category]
                    ELSE Append(currentCategories, category))

\* (mutant) the default category is not protected
deleteCategoryUnguarded(currentCategories, item, categoryId) ==
  setStoredValue(
    SelectSeqBy(currentCategories, {c \in Range(currentCategories) : c.id # categoryId}))

deleteCategoryFromStorage(currentCategories, item, categoryId) ==
  IF categoryId = DEFAULT
  THEN [value |-> currentCategories, item |-> item]
  ELSE setStoredValue(
         SelectSeqBy(currentCategories, {c \in Range(currentCategories) : c.id # categoryId}))

\* ------------------------------------------- hooks/useTasks: derived view
MatchesFilter(task, filter, settings) ==
  /\ filter.status # ALL => task.status = filter.status
  /\ filter.category # ALL => task.category = filter.category
  /\ filter.priority # ALL => task.priority = filter.priority
  /\ Trim(filter.searchQuery) # <<>> =>
       LET query == ToLowerCase(filter.searchQuery)
       IN \/ Includes(ToLowerCase(task.title), query)
          \/ Includes(ToLowerCase(task.description), query)
          \/ \E i \in 1..Len(task.tags) : Includes(ToLowerCase(task.tags[i]), query)
  /\ settings.showCompleted # "true" => task.status # "completed"

\* (mutant) the priorities are ranked by their names
priorityOrderByName(p) == CASE p = "high" -> 1 [] p = "low" -> 2 [] OTHER -> 3

priorityOrder(p) == CASE p = "high" -> 3 [] p = "medium" -> 2 [] OTHER -> 1

\* The comparator handed to Array.prototype.sort
Compare(a, b, settings) ==
  LET comparison ==
        CASE settings.sortBy = "title" -> LocaleCompare(a.title, b.title)
          [] settings.sortBy = "priority" -> priorityOrder(b.priority) - priorityOrder(a.priority)
          [] settings.sortBy = "createdAt" -> GetTime(b.createdAt) - GetTime(a.createdAt)
          [] OTHER -> a.order - b.order
  IN IF settings.sortOrder = "desc" THEN comparison ELSE 0 - comparison

\* (mutant) an element is placed before the elements it compares equal to
RECURSIVE InsertSortedBeforeEqual(_, _, _)
InsertSortedBeforeEqual(sorted, x, settings) ==
  IF sorted = <<>> THEN <<x>>
  ELSE IF Compare(sorted[Len(sorted)], x, settings) >= 0
       THEN Append(InsertSortedBeforeEqual(SubSeq(sorted, 1, Len(sorted) - 1), x, settings),
                   sorted[Len(sorted)])
       ELSE Append(sorted, x)

\* Array.prototype.sort is a stable sort
RECURSIVE InsertSorted(_, _, _)
InsertSorted(sorted, x, settings) ==
  IF sorted = <<>> THEN <<x>>
  ELSE IF Compare(sorted[Len(sorted)], x, settings) > 0
       THEN Append(InsertSorted(SubSeq(sorted, 1, Len(sorted) - 1), x, settings),
                   sorted[Len(sorted)])
       ELSE Append(sorted, x)
\* (mutant) the sorted list is handed over back to front
RECURSIVE SortTasksReversed(_, _)
SortTasksReversed(list, settings) ==
  IF list = <<>> THEN <<>>
  ELSE LET sorted == InsertSorted(SortTasksReversed(SubSeq(list, 1, Len(list) - 1), settings),
                                  list[Len(list)], settings)
       IN [i \in 1..Len(sorted) |-> sorted[Len(sorted) + 1 - i]]

RECURSIVE SortTasks(_, _)
SortTasks(list, settings) ==
  IF list = <<>> THEN <<>>
  ELSE InsertSorted(SortTasks(SubSeq(list, 1, Len(list) - 1), settings),
                    list[Len(list)], settings)

filteredTasks(state) ==
  SortTasks(
    SelectSeqBy(state.tasks,
                {t \in Range(state.tasks) : MatchesFilter(t, state.ui.filter, state.settings)}),
    state.settings)

\* (mutant) filtered starts as the task array itself: when no filter makes a
\* new array, sort() reorders the array of the application state in place
tasksAfterViewInPlace(state) ==
  IF /\ state.ui.filter.status = ALL
     /\ state.ui.filter.category = ALL
     /\ state.ui.filter.priority = ALL
     /\ Trim(state.ui.filter.searchQuery) = <<>>
     /\ state.settings.showCompleted = "true"
  THEN SortTasks(state.tasks, state.settings)
  ELSE state.tasks

\* The task array of the application state once useFilteredTasks' memo has
\* run: filtered starts as a new array ([...tasks]), so sort() reorders the
\* copy and leaves the array of the state as it is
tasksAfterView(state) == state.tasks

\* @dnd-kit arrayMove(array, from, to), 1-based
arrayMove(array, from, to) ==
  LET without == [i \in 1..(Len(array) - 1) |-> IF i < from THEN array[i] ELSE array[i + 1]]
  IN [i \in 1..Len(array) |->
        IF i < to THEN without[i] ELSE IF i = to THEN array[from] ELSE without[i - 1]]

\* ------------------------------------------------ hooks/useTwitterShare
\* The characters of the source outside ASCII are written by name, the line
\* feed as "LF"; each is one element of the text.
statusEmoji(status) ==
  CASE status = "todo" -> <<"memo">>
    [] status = "in-progress" -> <<"high-voltage">>
    [] OTHER -> <<"check-mark">>
statusLabel(status) ==
  CASE status = "todo" -> <<"label-todo">>
    [] status = "in-progress" -> <<"label-in-progress">>
    [] OTHER -> <<"label-completed">>
appHashtags == <<" ", "#", "TodoApp", " ", "#", "productivity">>

\* task.tags.map(tag => `#${tag}`).join(' ')
RECURSIVE hashtags(_)
hashtags(tags) ==
  IF tags = <<>> THEN <<>>
  ELSE IF Len(tags) = 1 THEN <<"#">> \o tags[1]
  ELSE <<"#">> \o tags[1] \o <<" ">> \o hashtags(Tail(tags))

\* (mutant) the application hashtags are appended only after task hashtags
formatTaskWithoutSuffix(task) ==
  LET base == statusEmoji(task.status) \o <<" ">> \o task.title \o <<" ", "-", " ">>
                \o statusLabel(task.status)
      tagged == IF Len(task.tags) > 0
                THEN base \o <<"LF", "LF">> \o hashtags(task.tags) \o appHashtags
                ELSE base
  IN IF task.status = "completed" /\ task.completionComment # <<>>
     THEN tagged \o <<"LF", "LF", "thought-balloon", " ">> \o task.completionComment
     ELSE tagged

\* (mutant) a comment is appended whatever the status
formatTaskWithAnyComment(task) ==
  LET base == statusEmoji(task.status) \o <<" ">> \o task.title \o <<" ", "-", " ">>
                \o statusLabel(task.status)
      tagged == IF Len(task.tags) > 0
                THEN base \o <<"LF", "LF">> \o hashtags(task.tags)
                ELSE base
      commented == IF task.completionComment # <<>>
                   THEN tagged \o <<"LF", "LF", "thought-balloon", " ">>
                          \o task.completionComment
                   ELSE tagged
  IN commented \o appHashtags

formatTaskForShare(task) ==
  LET base == statusEmoji(task.status) \o <<" ">> \o task.title \o <<" ", "-", " ">>
                \o statusLabel(task.status)
      tagged == IF Len(task.tags) > 0
                THEN base \o <<"LF", "LF">> \o hashtags(task.tags)
                ELSE base
      commented == IF task.status = "completed" /\ task.completionComment # <<>>
                   THEN tagged \o <<"LF", "LF", "thought-balloon", " ">>
                          \o task.completionComment
                   ELSE tagged
  IN commented \o appHashtags

\* ------------------------------------------------------------------ state
VARIABLES
  ls,                  \* localStorage: todo-tasks, todo-categories, todo-settings
  state,               \* AppState of TodoProvider's useReducer
  contentTasks,        \* value of TodoContent's useTaskStorage handle
  itemTasks,           \* value of each mounted TaskItem's useTaskStorage handle
  showCompletionForm,  \* the TaskItems whose completion form is shown
  formTasks,           \* value of TaskForm's useTaskStorage handle while mounted
  formTags,            \* TaskForm's formData.tags while mounted
  managerCategories,   \* value of CategoryManager's useCategoryStorage handle
  editingCategory,     \* CategoryManager's editingCategory (<<>> for null)
  clock,               \* tasks created so far: the source of ids and timestamps
  steps,               \* handlers run so far
  categoryClock,       \* categories created so far
  exported,            \* the document the last export downloaded
  lastOp               \* the handler that ran last and what it was given

vars ==
  <<ls, state, contentTasks, itemTasks, showCompletionForm, formTasks, formTags,
    managerCategories, editingCategory, clock, steps, categoryClock, exported,
    lastOp>>

\* inputs the handlers are given
FormTitles == {<<"A">>, <<" ">>}
Comments == {<<>>, <<"b">>}
CategoryNames == {<<"B">>, <<"S">>}
SearchQueries == {<<>>}
FilterStatuses == {ALL, "todo"}

Op(name) ==
  [name |-> name, id |-> 0, category |-> "", status |-> "", comment |-> <<>>,
   rejected |-> FALSE, file |-> Absent, text |-> <<>>, writeFailed |-> FALSE,
   form |-> <<>>, action |-> <<>>]

sampleTask ==
  [title |-> <<"S">>, description |-> <<"s">>, priority |-> "medium",
   category |-> DEFAULT, status |-> "todo", completionComment |-> <<>>,
   tags |-> << <<"s">>, <<"t">> >>]

NoModal == ~state.ui.isTaskFormOpen /\ ~state.ui.isCategoryManagerOpen
TaskOf(list, id) == list[FindIndex(list, id)]

\* The TaskItems rendered for a state, each keeping its handle while mounted
\* and reading todo-tasks when it mounts
Remount(items, newState, newLs) ==
  [id \in Ids(filteredTasks(newState)) |->
     IF id \in DOMAIN items THEN items[id] ELSE ReadStored(newLs.tasks, <<>>)]

\* The render that follows a handler: the reducer has run, the task-count
\* effect runs, TaskItems mount and unmount
Rendered(newState) ==
  LET counted == taskCountEffect(newState)
  IN [counted EXCEPT !.tasks = tasksAfterView(counted)]
Render(newState, newLs, items, completing) ==
  /\ state' = Rendered(newState)
  /\ ls' = newLs
  /\ itemTasks' = Remount(items, state', newLs)
  /\ showCompletionForm' = completing \cap DOMAIN itemTasks'

\* TodoProvider's mount: the three load effects
Loaded(store) ==
  Dispatch(initialState,
           << [type |-> "SET_TASKS", payload |-> ReadStored(store.tasks, <<>>)],
              [type |-> "SET_CATEGORIES",
               payload |-> ReadStored(store.categories, <<defaultCategory>>)],
              [type |-> "SET_SETTINGS",
               payload |-> ReadStored(store.settings, defaultSettings)] >>, 0)

Mount(store) ==
  /\ Render(Loaded(store), store, <<>>, {})
  /\ contentTasks' = ReadStored(store.tasks, <<>>)
  /\ formTasks' = <<>>
  /\ formTags' = <<>>
  /\ managerCategories' = <<>>
  /\ editingCategory' = <<>>

\* What an earlier session left in localStorage: nothing, or three tasks and
\* a category of the user's, written by the store operations below
freshStore == [tasks |-> Absent, categories |-> Absent, settings |-> Absent]
formTask ==
  [title |-> <<"A">>, description |-> <<>>, priority |-> "medium",
   category |-> CategoryId(1), status |-> "todo", completionComment |-> <<>>,
   tags |-> <<>>]
earlierTasks ==
  LET l1 == saveTask(<<>>, createTask(sampleTask, 1)).value
      l2 == saveTask(l1, createTask(formTask, 2)).value
      l3 == saveTask(l2, createTask(sampleTask, 3)).value
      l4 == updateTaskStatusInStorage(l3, 2, "in-progress", <<>>, 3).value
      l5 == updateTaskStatusInStorage(l4, 3, "in-progress", <<>>, 3).value
  IN updateTaskStatusInStorage(l5, 3, "completed", <<"b">>, 3).item
earlierCategories ==
  saveCategory(<<defaultCategory>>, createCategory(<<"B">>, 1)).item
earlierStore ==
  [tasks |-> earlierTasks, categories |-> earlierCategories, settings |-> Absent]
PersistedStores == {freshStore, earlierStore}

\* The page loads over the store an earlier session left
Init ==
  /\ ls \in PersistedStores
  /\ state = Rendered(Loaded(ls))
  /\ contentTasks = ReadStored(ls.tasks, <<>>)
  /\ itemTasks = Remount(<<>>, state, ls)
  /\ showCompletionForm = {}
  /\ formTasks = <<>>
  /\ formTags = <<>>
  /\ managerCategories = <<>>
  /\ editingCategory = <<>>
  /\ clock = Len(ReadStored(ls.tasks, <<>>))
  /\ steps = 0
  /\ categoryClock = Len(ReadStored(ls.categories, <<defaultCategory>>)) - 1
  /\ exported = Absent
  /\ lastOp = Op("mount")

\* ------------------------------------------------------------ TodoContent
\* useTasks.addTask through TodoContent's handle
addTask(input) ==
  /\ clock < MaxTasks
  /\ LET newTask == createTask(input, clock + 1)
         stored == saveTask(contentTasks, newTask)
     IN /\ contentTasks' = stored.value
        /\ Render(Dispatch(state, << [type |-> "ADD_TASK", payload |-> newTask] >>, clock + 1),
                  [ls EXCEPT !.tasks = stored.item],
                  itemTasks, showCompletionForm)
        /\ lastOp' = [Op("addTask") EXCEPT !.id = newTask.id, !.status = input.status]
  /\ clock' = clock + 1
  /\ UNCHANGED <<formTasks, formTags, managerCategories, editingCategory, categoryClock, exported>>

\* handleAddSampleTask
AddSampleTask ==
  /\ NoModal
  /\ addTask(sampleTask)

\* the new-task button: useUI.openTaskForm(); TaskForm mounts
OpenTaskForm ==
  /\ NoModal
  /\ formTasks' = ReadStored(ls.tasks, <<>>)
  /\ formTags' = <<>>
  /\ Render(Dispatch(state, << [type |-> "OPEN_TASK_FORM", payload |-> <<>>] >>, clock),
            ls, itemTasks, showCompletionForm)
  /\ lastOp' = Op("openTaskForm")
  /\ UNCHANGED <<contentTasks, managerCategories, editingCategory, clock, categoryClock, exported>>

\* handleDragEnd -> useTasks.reorderTaskList
DragEnd(activeId, overId) ==
  /\ NoModal
  /\ activeId # overId
  /\ LET visible == filteredTasks(state)
         oldIndex == FindIndex(visible, activeId)
         newIndex == FindIndex(visible, overId)
     IN /\ oldIndex # 0 /\ newIndex # 0
        /\ LET reorderedTasks == arrayMove(visible, oldIndex, newIndex)
               stored == reorderTasks(reorderedTasks)
           IN /\ contentTasks' = stored.value
              /\ Render(Dispatch(state, << [type |-> "REORDER_TASKS",
                                            payload |-> reorderedTasks] >>, clock),
                        [ls EXCEPT !.tasks = stored.item],
                        itemTasks, showCompletionForm)
  /\ lastOp' = [Op("reorderTaskList") EXCEPT !.id = activeId]
  /\ UNCHANGED <<formTasks, formTags, managerCategories, editingCategory, clock, categoryClock, exported>>

\* the filter controls: useUI.setFilter
SetFilter(updates) ==
  /\ NoModal
  /\ Render(Dispatch(state, << [type |-> "SET_FILTER", payload |-> updates] >>, clock),
            ls, itemTasks, showCompletionForm)
  /\ lastOp' = Op("setFilter")
  /\ UNCHANGED <<contentTasks, formTasks, formTags, managerCategories, editingCategory, clock,
                 categoryClock, exported>>

\* the category-manager button: CategoryManager mounts
OpenCategoryManager ==
  /\ NoModal
  /\ managerCategories' = ReadStored(ls.categories, <<defaultCategory>>)
  /\ editingCategory' = <<>>
  /\ Render(Dispatch(state, << [type |-> "OPEN_CATEGORY_MANAGER"] >>, clock),
            ls, itemTasks, showCompletionForm)
  /\ lastOp' = Op("openCategoryManager")
  /\ UNCHANGED <<contentTasks, formTasks, formTags, clock, categoryClock, exported>>

\* --------------------------------------------------------------- TaskItem
\* useTasks.updateTaskStatus through the handle of TaskItem id
ItemUpdateTaskStatus(id, status, completionComment, completing) ==
  LET stored == updateTaskStatusInStorage(itemTasks[id], id, status, completionComment, clock)
  IN /\ Render(Dispatch(state, << [type |-> "UPDATE_TASK_STATUS",
                                   payload |-> [id |-> id, status |-> status,
                                                completionComment |-> completionComment]] >>,
                        clock),
               [ls EXCEPT !.tasks = stored.item],
               [itemTasks EXCEPT ![id] = stored.value], completing)
     /\ lastOp' = [Op("updateTaskStatus") EXCEPT !.id = id, !.status = status,
                                                 !.comment = completionComment]

\* the start / complete button -> handleStatusChange
ItemStatusButton(id) ==
  /\ NoModal
  /\ id \in DOMAIN itemTasks
  /\ TaskOf(state.tasks, id).status # "completed"
  /\ IF TaskOf(state.tasks, id).status = "todo"
     THEN ItemUpdateTaskStatus(id, "in-progress", <<>>, showCompletionForm)
     ELSE /\ showCompletionForm' = showCompletionForm \cup {id}
          /\ lastOp' = [Op("showCompletionForm") EXCEPT !.id = id]
          /\ UNCHANGED <<ls, state, itemTasks>>
  /\ UNCHANGED <<contentTasks, formTasks, formTags, managerCategories, editingCategory, clock,
                 categoryClock, exported>>

\* the completion form's button -> handleComplete
ItemComplete(id, completionComment) ==
  /\ NoModal
  /\ id \in showCompletionForm
  /\ ItemUpdateTaskStatus(id, "completed", completionComment, showCompletionForm \ {id})
  /\ UNCHANGED <<contentTasks, formTasks, formTags, managerCategories, editingCategory, clock,
                 categoryClock, exported>>

\* the completion form's cancel button
ItemCancelComplete(id) ==
  /\ NoModal
  /\ id \in showCompletionForm
  /\ showCompletionForm' = showCompletionForm \ {id}
  /\ lastOp' = [Op("cancelCompletionForm") EXCEPT !.id = id]
  /\ UNCHANGED <<ls, state, itemTasks, contentTasks, formTasks, formTags, managerCategories,
                 editingCategory, clock, categoryClock, exported>>

\* the edit button -> handleEdit -> useUI.openTaskForm(task)
ItemEdit(id) ==
  /\ NoModal
  /\ id \in DOMAIN itemTasks
  /\ formTasks' = ReadStored(ls.tasks, <<>>)
  /\ formTags' = TaskOf(state.tasks, id).tags
  /\ Render(Dispatch(state, << [type |-> "OPEN_TASK_FORM",
                                payload |-> <<TaskOf(state.tasks, id)>>] >>, clock),
            ls, itemTasks, showCompletionForm)
  /\ lastOp' = [Op("openTaskForm") EXCEPT !.id = id]
  /\ UNCHANGED <<contentTasks, managerCategories, editingCategory, clock, categoryClock, exported>>

\* the delete button, confirmed -> handleDelete -> useTasks.deleteTask
ItemDelete(id) ==
  /\ NoModal
  /\ id \in DOMAIN itemTasks
  /\ LET stored == deleteTaskFromStorage(itemTasks[id], id)
     IN Render(Dispatch(state, << [type |-> "DELETE_TASK", payload |-> id] >>, clock),
               [ls EXCEPT !.tasks = stored.item],
               [itemTasks EXCEPT ![id] = stored.value], showCompletionForm)
  /\ lastOp' = [Op("deleteTask") EXCEPT !.id = id]
  /\ UNCHANGED <<contentTasks, formTasks, formTags, managerCategories, editingCategory, clock,
                 categoryClock, exported>>

\* handleShare -> shareTask: the text handed to the compose window; the
\* program's state does not change
ItemShare(id) ==
  /\ NoModal
  /\ id \in DOMAIN itemTasks
  /\ lastOp' = [Op("shareTask") EXCEPT
                  !.id = id,
                  !.text = formatTaskForShare(TaskOf(filteredTasks(state), id))]
  /\ UNCHANGED <<ls, state, contentTasks, itemTasks, showCompletionForm, formTasks, formTags,
                 managerCategories, editingCategory, clock, categoryClock, exported>>

\* --------------------------------------------------------------- TaskForm
\* (mutant) the lengths are not checked
validateTaskFormUnbounded(formData) ==
  /\ Trim(formData.title) # <<>>
  /\ formData.category # ""

validateTaskForm(formData) ==
  /\ Trim(formData.title) # <<>>
  /\ Len(formData.title) <= TitleMaxLength
  /\ Len(formData.description) <= DescriptionMaxLength
  /\ formData.category # ""

taskDataOf(formData) ==
  [title |-> Trim(formData.title),
   description |-> Trim(formData.description),
   priority |-> formData.priority,
   category |-> formData.category,
   status |-> "todo",
   completionComment |-> <<>>,
   tags |-> formData.tags]

\* the values the form's fields can hold when it is submitted
FormInputs ==
  LET editing == state.ui.editingTask
      initial == IF editing # <<>>
                 THEN [title |-> editing[1].title, description |-> editing[1].description,
                       priority |-> editing[1].priority, category |-> editing[1].category]
                 ELSE [title |-> <<>>, description |-> <<>>, priority |-> "medium",
                       category |-> DEFAULT]
  IN [title : FormTitles \cup {initial.title},
      description : {initial.description},
      priority : {initial.priority},
      category : Ids(state.categories) \cup {initial.category},
      tags : {formTags}]

\* handleSubmit -> useTasks.updateTask / useTasks.addTask, then closeTaskForm
TaskFormSubmit(formData) ==
  /\ state.ui.isTaskFormOpen
  /\ IF ~validateTaskForm(formData)
     THEN /\ lastOp' = [Op("submitTaskForm") EXCEPT !.rejected = TRUE,
                                                     !.form = <<formData>>]
          /\ UNCHANGED <<ls, state, itemTasks, showCompletionForm, formTasks, formTags, clock>>
     ELSE IF state.ui.editingTask # <<>>
     THEN LET id == state.ui.editingTask[1].id
              updates == taskDataOf(formData)
              found == FindIndex(state.tasks, id) # 0
              stored == IF found
                        THEN saveTask(formTasks, MergeTask(TaskOf(state.tasks, id), updates))
                        ELSE [value |-> formTasks, item |-> ls.tasks]
          IN /\ Render(Dispatch(state, << [type |-> "UPDATE_TASK",
                                           payload |-> [id |-> id, updates |-> updates]],
                                          [type |-> "CLOSE_TASK_FORM"] >>, clock),
                       [ls EXCEPT !.tasks = stored.item],
                       itemTasks, showCompletionForm)
             /\ formTasks' = <<>>
             /\ formTags' = <<>>
             /\ lastOp' = [Op("updateTask") EXCEPT !.id = id, !.form = <<formData>>]
             /\ clock' = clock
     ELSE /\ clock < MaxTasks
          /\ LET newTask == createTask(taskDataOf(formData), clock + 1)
                 stored == saveTask(formTasks, newTask)
             IN Render(Dispatch(state, << [type |-> "ADD_TASK", payload |-> newTask],
                                          [type |-> "CLOSE_TASK_FORM"] >>, clock + 1),
                       [ls EXCEPT !.tasks = stored.item],
                       itemTasks, showCompletionForm)
          /\ formTasks' = <<>>
          /\ formTags' = <<>>
          /\ lastOp' = [Op("addTask") EXCEPT !.id = clock + 1, !.form = <<formData>>]
          /\ clock' = clock + 1
  /\ UNCHANGED <<contentTasks, managerCategories, editingCategory, categoryClock, exported>>

\* the close and cancel buttons -> useUI.closeTaskForm; TaskForm unmounts
TaskFormClose ==
  /\ state.ui.isTaskFormOpen
  /\ formTasks' = <<>>
  /\ formTags' = <<>>
  /\ Render(Dispatch(state, << [type |-> "CLOSE_TASK_FORM"] >>, clock),
            ls, itemTasks, showCompletionForm)
  /\ lastOp' = Op("closeTaskForm")
  /\ UNCHANGED <<contentTasks, managerCategories, editingCategory, clock, categoryClock, exported>>

\* (mutant) a tag is added however many tags the form holds
handleTagAddUncapped(tags, tagInput) ==
  LET newTag == Trim(tagInput)
  IN IF newTag # <<>> /\ newTag \notin Range(tags)
     THEN Append(tags, newTag) ELSE tags

\* handleTagAdd, on Enter or comma in the tag input: the form's new tag list
handleTagAdd(tags, tagInput) ==
  LET newTag == Trim(tagInput)
  IN IF newTag # <<>> /\ newTag \notin Range(tags) /\ Len(tags) < MaxTagCount
     THEN Append(tags, newTag) ELSE tags

handleTagRemove(tags, tagToRemove) ==
  SelectSeqBy(tags, {tag \in Range(tags) : tag # tagToRemove})

FormTagAdd(tagInput) ==
  /\ state.ui.isTaskFormOpen
  /\ formTags' = handleTagAdd(formTags, tagInput)
  /\ lastOp' = [Op("addTag") EXCEPT !.text = tagInput]
  /\ UNCHANGED <<ls, state, contentTasks, itemTasks, showCompletionForm, formTasks,
                 managerCategories, editingCategory, clock, categoryClock, exported>>

\* the remove button of a tag
FormTagRemove(tagToRemove) ==
  /\ state.ui.isTaskFormOpen
  /\ tagToRemove \in Range(formTags)
  /\ formTags' = handleTagRemove(formTags, tagToRemove)
  /\ lastOp' = [Op("removeTag") EXCEPT !.text = tagToRemove]
  /\ UNCHANGED <<ls, state, contentTasks, itemTasks, showCompletionForm, formTasks,
                 managerCategories, editingCategory, clock, categoryClock, exported>>

\* -------------------------------------------------------- CategoryManager
\* (mutant) the name is not compared with the names in use
validateCategoryFormUncompared(name) ==
  /\ Trim(name) # <<>>
  /\ Len(name) <= CategoryNameMaxLength

validateCategoryForm(name) ==
  /\ Trim(name) # <<>>
  /\ Len(name) <= CategoryNameMaxLength
  /\ ~\E i \in 1..Len(state.categories) :
        /\ state.categories[i].name = Trim(name)
        /\ (editingCategory = <<>> \/ state.categories[i].id # editingCategory[1].id)

\* handleSubmit -> useCategories.updateCategory / useCategories.addCategory
ManagerSubmit(name) ==
  /\ state.ui.isCategoryManagerOpen
  /\ IF ~validateCategoryForm(name)
     THEN /\ lastOp' = [Op("submitCategoryForm") EXCEPT !.rejected = TRUE, !.text = name]
          /\ UNCHANGED <<ls, state, itemTasks, showCompletionForm, managerCategories,
                         editingCategory, categoryClock>>
     ELSE IF editingCategory # <<>>
     THEN LET updatedCategory == [editingCategory[1] EXCEPT !.name = Trim(name)]
              stored == saveCategory(managerCategories, updatedCategory)
          IN /\ managerCategories' = stored.value
             /\ Render(Dispatch(state, << [type |-> "UPDATE_CATEGORY",
                                           payload |-> updatedCategory] >>, clock),
                       [ls EXCEPT !.categories = stored.item],
                       itemTasks, showCompletionForm)
             /\ editingCategory' = <<>>
             /\ lastOp' = [Op("updateCategory") EXCEPT !.category = updatedCategory.id,
                                                       !.text = name]
             /\ categoryClock' = categoryClock
     ELSE /\ categoryClock < MaxCategories
          /\ LET newCategory == createCategory(Trim(name), categoryClock + 1)
                 stored == saveCategory(managerCategories, newCategory)
             IN /\ managerCategories' = stored.value
                /\ Render(Dispatch(state, << [type |-> "ADD_CATEGORY",
                                              payload |-> newCategory] >>, clock),
                          [ls EXCEPT !.categories = stored.item],
                          itemTasks, showCompletionForm)
                /\ lastOp' = [Op("addCategory") EXCEPT !.category = newCategory.id,
                                                       !.text = name]
          /\ editingCategory' = <<>>
          /\ categoryClock' = categoryClock + 1
  /\ UNCHANGED <<contentTasks, formTasks, formTags, clock, exported>>

\* the edit button of a category -> handleEdit
ManagerEdit(categoryId) ==
  /\ state.ui.isCategoryManagerOpen
  /\ editingCategory' = <<TaskOf(state.categories, categoryId)>>
  /\ lastOp' = [Op("editCategory") EXCEPT !.category = categoryId]
  /\ UNCHANGED <<ls, state, itemTasks, showCompletionForm, contentTasks, formTasks, formTags,
                 managerCategories, clock, categoryClock, exported>>

\* the cancel button of the category form -> handleCancelEdit
ManagerCancelEdit ==
  /\ state.ui.isCategoryManagerOpen
  /\ editingCategory # <<>>
  /\ editingCategory' = <<>>
  /\ lastOp' = Op("cancelEditCategory")
  /\ UNCHANGED <<ls, state, itemTasks, showCompletionForm, contentTasks, formTasks, formTags,
                 managerCategories, clock, categoryClock, exported>>

\* (mutant) no task is moved
tasksToUpdateNone(tasks, id) == <<>>

\* useCategories.deleteCategory: the tasks it moves to the default category
tasksToUpdate(tasks, id) ==
  SelectSeqBy(tasks, {t \in Range(tasks) : t.category = id})

\* useCategories.deleteCategory through CategoryManager's handle
deleteCategory(id) ==
  IF id = DEFAULT
  THEN /\ lastOp' = [Op("deleteCategory") EXCEPT !.category = id, !.rejected = TRUE]
       /\ UNCHANGED <<ls, state, itemTasks, showCompletionForm, managerCategories>>
  ELSE LET toUpdate == tasksToUpdate(state.tasks, id)
           stored == deleteCategoryFromStorage(managerCategories, ls.categories, id)
       IN /\ managerCategories' = stored.value
          /\ Render(Dispatch(state,
                             [i \in 1..Len(toUpdate) |->
                                [type |-> "UPDATE_TASK",
                                 payload |-> [id |-> toUpdate[i].id,
                                              updates |-> [category |-> DEFAULT]]]]
                               \o << [type |-> "DELETE_CATEGORY", payload |-> id] >>,
                             clock),
                    [ls EXCEPT !.categories = stored.item],
                    itemTasks, showCompletionForm)
          /\ lastOp' = [Op("deleteCategory") EXCEPT !.category = id]

\* handleDelete(category), the confirm dialog accepted
handleDelete(categoryId) ==
  IF categoryId = DEFAULT
  THEN /\ lastOp' = [Op("handleDelete") EXCEPT !.category = categoryId, !.rejected = TRUE]
       /\ UNCHANGED <<ls, state, itemTasks, showCompletionForm, managerCategories>>
  ELSE deleteCategory(categoryId)

\* the delete button of a category, disabled for the default category
ManagerDelete(categoryId) ==
  /\ state.ui.isCategoryManagerOpen
  /\ categoryId # DEFAULT
  /\ handleDelete(categoryId)
  /\ UNCHANGED <<contentTasks, formTasks, formTags, editingCategory, clock, categoryClock, exported>>

\* the close button -> useUI.closeCategoryManager; CategoryManager unmounts
CloseCategoryManager ==
  /\ state.ui.isCategoryManagerOpen
  /\ managerCategories' = <<>>
  /\ editingCategory' = <<>>
  /\ Render(Dispatch(state, << [type |-> "CLOSE_CATEGORY_MANAGER"] >>, clock),
            ls, itemTasks, showCompletionForm)
  /\ lastOp' = Op("closeCategoryManager")
  /\ UNCHANGED <<contentTasks, formTasks, formTags, clock, categoryClock, exported>>

\* the browser reloads the page
Reload ==
  /\ Mount(ls)
  /\ lastOp' = Op("reload")
  /\ UNCHANGED <<clock, categoryClock, exported>>

\* --------------------------------------------------- the hooks, called directly
\* useTasks.addTask with any valid CreateTaskInput
CreateTaskInputs ==
  [title : {<<"A">>}, description : {<<>>}, priority : {"low"}, category : {DEFAULT},
   status : Statuses, completionComment : {<<>>}, tags : {<<>>}]
ApiAddTask(input) == addTask(input)

\* useTasks.updateTaskStatus with any status, through the handle of TaskItem id
ApiUpdateTaskStatus(id, status, completionComment) ==
  /\ id \in DOMAIN itemTasks
  /\ ItemUpdateTaskStatus(id, status, completionComment, showCompletionForm)
  /\ UNCHANGED <<contentTasks, formTasks, formTags, managerCategories, editingCategory, clock,
                 categoryClock, exported>>

\* CategoryManager.handleDelete with any category
ApiHandleDelete(categoryId) ==
  /\ state.ui.isCategoryManagerOpen
  /\ handleDelete(categoryId)
  /\ UNCHANGED <<contentTasks, formTasks, formTags, editingCategory, clock, categoryClock, exported>>

\* useCategories.deleteCategory with any id
ApiDeleteCategory(id) ==
  /\ state.ui.isCategoryManagerOpen
  /\ deleteCategory(id)
  /\ UNCHANGED <<contentTasks, formTasks, formTags, editingCategory, clock, categoryClock, exported>>

\* useCategoryStorage.deleteCategory with any id, through CategoryManager's handle
StoreDeleteCategory(categoryId) ==
  /\ state.ui.isCategoryManagerOpen
  /\ LET stored == deleteCategoryFromStorage(managerCategories, ls.categories, categoryId)
     IN /\ managerCategories' = stored.value
        /\ ls' = [ls EXCEPT !.categories = stored.item]
  /\ lastOp' = [Op("deleteCategoryFromStorage") EXCEPT
                  !.category = categoryId, !.rejected = (categoryId = DEFAULT)]
  /\ UNCHANGED <<state, itemTasks, showCompletionForm, contentTasks, formTasks, formTags,
                 editingCategory, clock, categoryClock, exported>>

\* (mutant) the tasks are left out of the document
exportedDocumentWithoutTasks(store) ==
  [tasks |-> Stored(<<>>),
   categories |-> Stored(ReadStored(store.categories, <<>>)),
   settings |-> Stored(ReadStored(store.settings, emptySettings)),
   isArray |-> TRUE]

\* useDataManagement.exportData: the document written to the downloaded file
\* (exportedAt and version, which importData never reads, are left out)
exportedDocument(store) ==
  [tasks |-> Stored(ReadStored(store.tasks, <<>>)),
   categories |-> Stored(ReadStored(store.categories, <<>>)),
   settings |-> Stored(ReadStored(store.settings, emptySettings)),
   isArray |-> TRUE]

\* useDataManagement.exportData; JSON.parse of a key that does not parse throws
exportData ==
  /\ IF \E key \in DOMAIN ls : ls[key].has /\ ~ls[key].json
     THEN /\ exported' = exported
          /\ lastOp' = [Op("exportData") EXCEPT !.rejected = TRUE]
     ELSE /\ exported' = Stored(exportedDocument(ls))
          /\ lastOp' = Op("exportData")
  /\ UNCHANGED <<ls, state, itemTasks, showCompletionForm, contentTasks, formTasks, formTags,
                 managerCategories, editingCategory, clock, categoryClock>>

\* the documents a user imports: the last export, or a list of tasks alone;
\* isArray is Array.isArray(importData.tasks)
tasksOnlyDocument ==
  [tasks |-> earlierTasks, categories |-> Absent, settings |-> Absent, isArray |-> TRUE]
noTasksDocument ==
  [tasks |-> Absent, categories |-> earlierCategories, settings |-> Absent,
   isArray |-> FALSE]
\* a tasks field that holds an object
tasksNotArrayDocument ==
  [tasks |-> Stored(<<>>), categories |-> earlierCategories, settings |-> Absent,
   isArray |-> FALSE]
ImportDocuments ==
  {tasksOnlyDocument, noTasksDocument} \cup (IF exported.has THEN {exported.val} ELSE {})
\* the files a user picks: a document as JSON text, or a text that is not JSON
ImportFiles ==
  {Stored(d) : d \in ImportDocuments \cup {tasksNotArrayDocument}} \cup {Unparsable}

\* (mutant) any tasks field is accepted
validImportAnyTasks(file) == file.json /\ file.val.tasks.has

\* importData: the file parses and holds a tasks field that is an array
validImport(file) == file.json /\ file.val.tasks.has /\ file.val.isArray

\* (mutant) absent categories and settings are left to the program's defaults
importedStoreWithDefaults(document) ==
  [tasks |-> Stored(JSONStringify(document.tasks.val)),
   categories |-> Stored(JSONStringify(ReadStored(document.categories, <<defaultCategory>>))),
   settings |-> Stored(ReadStored(document.settings, defaultSettings))]

\* importData: the three keys it writes
importedStore(document) ==
  [tasks |-> Stored(JSONStringify(document.tasks.val)),
   categories |-> Stored(JSONStringify(ReadStored(document.categories, <<>>))),
   settings |-> Stored(ReadStored(document.settings, emptySettings))]

\* useDataManagement.importData: the three keys are written, the page reloads
importData(file) ==
  /\ IF ~validImport(file)
     THEN /\ lastOp' = [Op("importData") EXCEPT !.rejected = TRUE, !.file = file]
          /\ UNCHANGED <<ls, state, itemTasks, showCompletionForm, contentTasks, formTasks, formTags,
                         managerCategories, editingCategory>>
     ELSE /\ Mount(importedStore(file.val))
          /\ lastOp' = [Op("importData") EXCEPT !.file = file]
  \* identifiers are not reused: later ones differ from the imported ones
  /\ LET used == {clock} \cup (IF validImport(file) THEN Ids(file.val.tasks.val) ELSE {})
     IN clock' = CHOOSE m \in used : \A x \in used : x <= m
  /\ UNCHANGED <<categoryClock, exported>>

\* useDataManagement.clearAllData: the three keys are removed, the page reloads
clearAllData ==
  /\ Mount(freshStore)
  /\ lastOp' = Op("clearAllData")
  /\ UNCHANGED <<clock, categoryClock, exported>>

FilterUpdates ==
  [status : FilterStatuses]
    \cup [category : {ALL} \cup Ids(state.categories)]
    \cup [searchQuery : SearchQueries]

\* One handler runs, within the budget of steps
Step(Handler) ==
  /\ steps < MaxSteps
  /\ steps' = steps + 1
  /\ Handler

\* The handlers the rendered components offer
Next ==
  \/ Step(AddSampleTask)
  \/ Step(OpenTaskForm)
  \/ Step(OpenCategoryManager)
  \/ \E a, o \in DOMAIN itemTasks : Step(DragEnd(a, o))
  \/ \E u \in FilterUpdates : Step(SetFilter(u))
  \/ \E id \in DOMAIN itemTasks : Step(ItemStatusButton(id))
  \/ \E id \in DOMAIN itemTasks, c \in Comments : Step(ItemComplete(id, c))
  \/ \E id \in DOMAIN itemTasks : Step(ItemCancelComplete(id))
  \/ \E id \in DOMAIN itemTasks : Step(ItemEdit(id))
  \/ \E id \in DOMAIN itemTasks : Step(ItemDelete(id))
  \/ \E f \in FormInputs : Step(TaskFormSubmit(f))
  \/ Step(TaskFormClose)
  \/ \E n \in CategoryNames : Step(ManagerSubmit(n))
  \/ \E c \in Ids(state.categories) : Step(ManagerEdit(c))
  \/ Step(ManagerCancelEdit)
  \/ \E c \in Ids(state.categories) : Step(ManagerDelete(c))
  \/ Step(CloseCategoryManager)
  \/ Step(Reload)

Spec == Init /\ [][Next]_vars

\* The hooks called directly, with the category manager mounted or not
NextApi ==
  \/ \E i \in CreateTaskInputs : Step(ApiAddTask(i))
  \/ \E id \in DOMAIN itemTasks, st \in Statuses :
        \E c \in (IF st = "completed" THEN Comments ELSE {<<>>}) :
           Step(ApiUpdateTaskStatus(id, st, c))
  \/ \E c \in Ids(state.categories) : Step(ApiHandleDelete(c))
  \/ \E c \in Ids(state.categories) : Step(ApiDeleteCategory(c))
  \/ \E c \in Ids(state.categories) : Step(StoreDeleteCategory(c))
  \/ Step(exportData)
  \/ \E f \in ImportFiles : Step(importData(f))
  \/ Step(clearAllData)
  \/ Step(OpenCategoryManager)
  \/ Step(CloseCategoryManager)
  \/ Step(Reload)

SpecApi == Init /\ [][NextApi]_vars

\* --------------------------------------------- writes that the browser refuses
\* useTasks.addTask through TodoContent's handle; throws: setItem throws
QuotaAddTask(input, throws) ==
  /\ clock < MaxTasks
  /\ LET newTask == createTask(input, clock + 1)
         saved == saveTask(contentTasks, newTask)
         stored == IF throws
                   THEN setItemThrows(saved, [value |-> contentTasks, item |-> ls.tasks])
                   ELSE saved
     IN /\ contentTasks' = stored.value
        /\ Render(Dispatch(state, << [type |-> "ADD_TASK", payload |-> newTask] >>, clock + 1),
                  [ls EXCEPT !.tasks = stored.item],
                  itemTasks, showCompletionForm)
        /\ lastOp' = [Op("addTask") EXCEPT !.id = newTask.id, !.status = input.status,
                                           !.writeFailed = throws]
  /\ clock' = clock + 1
  /\ UNCHANGED <<formTasks, formTags, managerCategories, editingCategory, categoryClock, exported>>

\* useTasks.updateTaskStatus through the handle of TaskItem id; throws: setItem throws
QuotaUpdateTaskStatus(id, status, completionComment, throws) ==
  /\ id \in DOMAIN itemTasks
  /\ LET updated == updateTaskStatusInStorage(itemTasks[id], id, status, completionComment,
                                              clock)
         stored == IF throws
                   THEN setItemThrows(updated, [value |-> itemTasks[id], item |-> ls.tasks])
                   ELSE updated
     IN /\ Render(Dispatch(state, << [type |-> "UPDATE_TASK_STATUS",
                                      payload |-> [id |-> id, status |-> status,
                                                   completionComment |-> completionComment]] >>,
                           clock),
                  [ls EXCEPT !.tasks = stored.item],
                  [itemTasks EXCEPT ![id] = stored.value], showCompletionForm)
        /\ lastOp' = [Op("updateTaskStatus") EXCEPT !.id = id, !.status = status,
                                                    !.comment = completionComment,
                                                    !.writeFailed = throws]
  /\ UNCHANGED <<contentTasks, formTasks, formTags, managerCategories, editingCategory, clock,
                 categoryClock, exported>>

\* The task hooks while any write to localStorage may be refused
NextQuota ==
  \/ \E throws \in BOOLEAN : Step(QuotaAddTask(sampleTask, throws))
  \/ \E id \in DOMAIN itemTasks, st \in {"in-progress", "completed"}, throws \in BOOLEAN :
        Step(QuotaUpdateTaskStatus(id, st, IF st = "completed" THEN <<"b">> ELSE <<>>, throws))
  \/ Step(Reload)

SpecQuota == Init /\ [][NextQuota]_vars

\* ------------------------------------------------- the forms, any input
\* n characters typed into a field
Chars(n) == [i \in 1..n |-> "a"]
WideFormInputs ==
  [title : {<<" ">>, <<" ", "A">>, Chars(TitleMaxLength), Chars(TitleMaxLength + 1)},
   description : {<<>>, Chars(DescriptionMaxLength), Chars(DescriptionMaxLength + 1)},
   priority : {"medium"},
   category : {DEFAULT},
   tags : {formTags}]
WideCategoryNames ==
  {<<"B">>, <<"S">>, <<" ">>, <<" ", "B">>, Chars(CategoryNameMaxLength),
   Chars(CategoryNameMaxLength + 1)}
TagNames ==
  << <<"a">>, <<"A">>, <<"b">>, <<"B">>, <<"s">>, <<"S">>, <<"t">>, <<"T">>,
     <<"a", "b">>, <<"b", "a">>, <<"s", "t">> >>
TagInputs == {<<" ">>, <<" ", "a">>, TagNames[MaxTagCount], TagNames[MaxTagCount + 1]}
TagRemovals == {TagNames[1], TagNames[MaxTagCount]}

\* A store in which earlier sessions of the form left tasks with nine and ten tags
taggedTask(n) == [sampleTask EXCEPT !.tags = SubSeq(TagNames, 1, n)]
taggedTasks ==
  LET l1 == saveTask(<<>>, createTask(taggedTask(MaxTagCount - 1), 1)).value
  IN saveTask(l1, createTask(taggedTask(MaxTagCount), 2)).item
taggedStore == [tasks |-> taggedTasks, categories |-> Absent, settings |-> Absent]
FormStores == PersistedStores \cup {taggedStore}

InitForm ==
  /\ ls \in FormStores
  /\ state = Rendered(Loaded(ls))
  /\ contentTasks = ReadStored(ls.tasks, <<>>)
  /\ itemTasks = Remount(<<>>, state, ls)
  /\ showCompletionForm = {}
  /\ formTasks = <<>>
  /\ formTags = <<>>
  /\ managerCategories = <<>>
  /\ editingCategory = <<>>
  /\ clock = Len(ReadStored(ls.tasks, <<>>))
  /\ steps = 0
  /\ categoryClock = Len(ReadStored(ls.categories, <<defaultCategory>>)) - 1
  /\ exported = Absent
  /\ lastOp = Op("mount")

\* The task form and the category manager, given any input
NextForm ==
  \/ Step(OpenTaskForm)
  \/ \E id \in DOMAIN itemTasks : Step(ItemEdit(id))
  \/ \E t \in TagInputs : Step(FormTagAdd(t))
  \/ \E t \in TagRemovals : Step(FormTagRemove(t))
  \/ \E f \in WideFormInputs : Step(TaskFormSubmit(f))
  \/ Step(TaskFormClose)
  \/ Step(OpenCategoryManager)
  \/ \E n \in WideCategoryNames : Step(ManagerSubmit(n))
  \/ \E c \in Ids(state.categories) : Step(ManagerEdit(c))
  \/ Step(ManagerCancelEdit)
  \/ Step(CloseCategoryManager)

SpecForm == InitForm /\ [][NextForm]_vars

\* ------------------------------------------------- the derived view, shared
\* Tasks a store can hold (written by earlier sessions or by an import): with
\* equal titles, priorities, creation times and orders among them, a comment
\* left on a task that is no longer completed, tags in either case
viewTask(id, title, description, priority, category, status, comment, tags, k, order) ==
  [id |-> id, title |-> title, description |-> description, priority |-> priority,
   category |-> category, status |-> status, completionComment |-> comment,
   tags |-> tags, createdAt |-> IsoDate(NewDate(k)),
   completedAt |-> IF status = "completed" THEN IsoDate(NewDate(k + 1)) ELSE NullDate,
   order |-> order]
ViewPool ==
  {viewTask(1, <<"A">>, <<>>, "low", DEFAULT, "todo", <<"b">>, <<>>, 1, 0),
   viewTask(2, <<"B">>, <<"a">>, "high", CategoryId(1), "completed", <<"b">>,
            << <<"s">>, <<"t">> >>, 2, 1),
   viewTask(3, <<"A">>, <<>>, "high", DEFAULT, "in-progress", <<>>, << <<"T">> >>, 2, 1),
   viewTask(4, <<"b">>, <<>>, "medium", DEFAULT, "completed", <<>>, <<>>, 1, 0)}
ViewTaskLists ==
  UNION {{l \in [1..n -> ViewPool] : \A i, j \in 1..n : i # j => l[i].id # l[j].id} :
           n \in 0..MaxViewTasks}
ViewSettings ==
  [sortBy : {"createdAt", "priority", "title", "dueDate"},
   sortOrder : {"asc", "desc"},
   showCompleted : {"true", "false"}] \cup {emptySettings}
ViewStores ==
  [tasks : {Absent, Unparsable} \cup {Stored(l) : l \in ViewTaskLists},
   categories : {earlierCategories},
   settings : {Unparsable} \cup {Stored(v) : v \in ViewSettings}]
ViewFilterUpdates ==
  [status : {ALL, "completed"}]
    \cup [category : {ALL, DEFAULT}]
    \cup [priority : {ALL, "high"}]
    \cup [searchQuery : {<<>>, <<" ">>, <<"a">>}]

\* The page loads over any content of the three keys
InitView ==
  /\ ls \in ViewStores
  /\ state = Rendered(Loaded(ls))
  /\ contentTasks = ReadStored(ls.tasks, <<>>)
  /\ itemTasks = Remount(<<>>, state, ls)
  /\ showCompletionForm = {}
  /\ formTasks = <<>>
  /\ formTags = <<>>
  /\ managerCategories = <<>>
  /\ editingCategory = <<>>
  /\ clock = Cardinality(ViewPool)
  /\ steps = 0
  /\ categoryClock = 1
  /\ exported = Absent
  /\ lastOp = Op("mount")

\* The filter controls, the share button of a visible task, a reload
NextView ==
  \/ \E u \in ViewFilterUpdates : Step(SetFilter(u))
  \/ \E id \in DOMAIN itemTasks : Step(ItemShare(id))
  \/ Step(Reload)

SpecView == InitView /\ [][NextView]_vars

\* ------------------------------------------------------------------ useUI
\* The action each function of useUI dispatches; task is <<>> when omitted
openTaskForm(task) == [type |-> "OPEN_TASK_FORM", payload |-> task]
\* (mutant) the form is closed by clearing its flag only
closeTaskFormByFlag == [type |-> "SET_UI_STATE", payload |-> [isTaskFormOpen |-> FALSE]]
closeTaskForm == [type |-> "CLOSE_TASK_FORM"]
openCategoryManager == [type |-> "OPEN_CATEGORY_MANAGER"]
closeCategoryManager == [type |-> "CLOSE_CATEGORY_MANAGER"]
setFilter(filterUpdates) == [type |-> "SET_FILTER", payload |-> filterUpdates]
clearFilters ==
  [type |-> "SET_FILTER",
   payload |-> [status |-> ALL, category |-> ALL, priority |-> ALL, searchQuery |-> <<>>]]

\* A function of useUI is called in any state of the two modals, and the
\* provider renders
UiCall(action) ==
  /\ steps < MaxSteps
  /\ steps' = steps + 1
  /\ Render(Dispatch(state, <<action>>, clock), ls, itemTasks, showCompletionForm)
  /\ lastOp' = [Op("useUI") EXCEPT !.action = <<action>>]
  /\ UNCHANGED <<contentTasks, formTasks, formTags, managerCategories, editingCategory, clock,
                 categoryClock, exported>>

UiTasks == {<<>>} \cup {<<state.tasks[i]>> : i \in 1..Len(state.tasks)}
UiFilterUpdates ==
  [status : {ALL, "completed"}]
    \cup [category : {ALL} \cup Ids(state.categories)]
    \cup [priority : {ALL, "high"}]
    \cup [searchQuery : {<<>>, <<"a">>}]
    \cup [status : {"todo"}, priority : {"low"}]

NextUi ==
  \/ \E task \in UiTasks : UiCall(openTaskForm(task))
  \/ UiCall(closeTaskForm)
  \/ UiCall(openCategoryManager)
  \/ UiCall(closeCategoryManager)
  \/ \E u \in UiFilterUpdates : UiCall(setFilter(u))
  \/ UiCall(clearFilters)

SpecUi == Init /\ [][NextUi]_vars

\* ------------------------------------------------ appReducer, action by action
\* The provider has loaded the three keys; the task-count effect has not run yet
InitReducer ==
  /\ ls \in PersistedStores
  /\ state = Loaded(ls)
  /\ contentTasks = ReadStored(ls.tasks, <<>>)
  /\ itemTasks = <<>>
  /\ showCompletionForm = {}
  /\ formTasks = <<>>
  /\ formTags = <<>>
  /\ managerCategories = <<>>
  /\ editingCategory = <<>>
  /\ clock = Len(ReadStored(ls.tasks, <<>>))
  /\ steps = 0
  /\ categoryClock = Len(ReadStored(ls.categories, <<defaultCategory>>)) - 1
  /\ exported = Absent
  /\ lastOp = Op("mount")

\* dispatch(action): one run of the reducer; new Date() reads clock + 1
ReducerDispatch(action) ==
  /\ steps < MaxDispatches
  /\ steps' = steps + 1
  /\ state' = appReducer(state, action, clock + 1)
  /\ lastOp' = [Op("dispatch") EXCEPT !.action = <<action>>]
  /\ clock' = IF action.type = "ADD_TASK" THEN clock + 1 ELSE clock
  /\ categoryClock' = IF action.type = "ADD_CATEGORY" THEN categoryClock + 1 ELSE categoryClock
  /\ UNCHANGED <<ls, contentTasks, itemTasks, showCompletionForm, formTasks, formTags,
                 managerCategories, editingCategory, exported>>

\* The task-count effect, run once after a render
RecountEffect ==
  /\ hasChanges(state)
  /\ state' = appReducer(state, [type |-> "SET_CATEGORIES",
                                 payload |-> updatedCategories(state)], clock)
  /\ lastOp' = [Op("recount") EXCEPT
                  !.action = << [type |-> "SET_CATEGORIES",
                                 payload |-> updatedCategories(state)] >>]
  /\ UNCHANGED <<ls, contentTasks, itemTasks, showCompletionForm, formTasks, formTags,
                 managerCategories, editingCategory, clock, steps, categoryClock, exported>>

\* an id that no task has, a category id that no category has
NoTaskId == 0
NoCategoryId == CategoryId(4)
DispatchTaskIds == Ids(state.tasks) \cup {NoTaskId}
DispatchCategoryIds == Ids(state.categories) \cup {NoCategoryId}
\* status and comment of an UPDATE_TASK_STATUS payload; the comment may be omitted
StatusPayloads ==
  {<<"todo", UndefinedString>>, <<"in-progress", <<"b">> >>,
   <<"completed", UndefinedString>>, <<"completed", <<>> >>, <<"completed", <<"b">> >>}

DispatchFilterUpdates ==
  [status : {"completed"}] \cup [category : {DEFAULT}] \cup [searchQuery : {<<"a">>}]

\* Every action type of AppAction, and the effect
NextReducer ==
  \/ ReducerDispatch([type |-> "SET_TASKS", payload |-> <<>>])
  \/ /\ clock < MaxTasks
     /\ ReducerDispatch([type |-> "ADD_TASK", payload |-> createTask(sampleTask, clock + 1)])
  \/ \E id \in DispatchTaskIds :
        ReducerDispatch([type |-> "UPDATE_TASK",
                         payload |-> [id |-> id,
                                      updates |-> [title |-> <<"B">>,
                                                   category |-> CategoryId(1)]]])
  \/ \E id \in DispatchTaskIds : ReducerDispatch([type |-> "DELETE_TASK", payload |-> id])
  \/ /\ Len(state.tasks) >= 2
     /\ ReducerDispatch([type |-> "REORDER_TASKS",
                         payload |-> arrayMove(state.tasks, 1, Len(state.tasks))])
  \/ \E id \in DispatchTaskIds, p \in StatusPayloads :
        ReducerDispatch([type |-> "UPDATE_TASK_STATUS",
                         payload |-> [id |-> id, status |-> p[1],
                                      completionComment |-> p[2]]])
  \/ ReducerDispatch([type |-> "SET_CATEGORIES", payload |-> <<defaultCategory>>])
  \/ /\ categoryClock < MaxCategories
     /\ ReducerDispatch([type |-> "ADD_CATEGORY",
                         payload |-> createCategory(<<"B">>, categoryClock + 1)])
  \/ \E id \in DispatchCategoryIds :
        ReducerDispatch([type |-> "UPDATE_CATEGORY",
                         payload |-> [id |-> id, name |-> <<"A">>, taskCount |-> 0]])
  \/ \E id \in DispatchCategoryIds :
        ReducerDispatch([type |-> "DELETE_CATEGORY", payload |-> id])
  \/ ReducerDispatch([type |-> "SET_SETTINGS",
                      payload |-> [defaultSettings EXCEPT !.sortBy = "title"]])
  \/ ReducerDispatch([type |-> "UPDATE_SETTINGS", payload |-> [showCompleted |-> "false"]])
  \/ ReducerDispatch([type |-> "SET_UI_STATE", payload |-> [isCategoryManagerOpen |-> TRUE]])
  \/ \E task \in UiTasks : ReducerDispatch(openTaskForm(task))
  \/ ReducerDispatch(closeTaskForm)
  \/ ReducerDispatch(openCategoryManager)
  \/ ReducerDispatch(closeCategoryManager)
  \/ \E u \in DispatchFilterUpdates : ReducerDispatch(setFilter(u))
  \/ ReducerDispatch(clearFilters)
  \/ RecountEffect

SpecReducer == InitReducer /\ [][NextReducer]_vars

\* ----------------------------------------------------------------- claims
Persisted(store) == ReadStored(store.tasks, <<>>)
HasCompletedAt(task) == task.completedAt.kind # "null"
TaskOperations ==
  {"addTask", "updateTask", "deleteTask", "updateTaskStatus", "reorderTaskList"}

\* C1: in every reachable application state each task has completedAt non-null
\* if and only if its status is completed
C1_CompletedAtIffCompleted ==
  \A i \in 1..Len(state.tasks) :
     HasCompletedAt(state.tasks[i]) <=> state.tasks[i].status = "completed"

\* C2: after every task operation the list persisted under todo-tasks holds
\* the same set of task identifiers as the application state
C2_PersistedIdsMatchState ==
  lastOp.name \in TaskOperations => Ids(Persisted(ls)) = Ids(state.tasks)

\* C3: deleting a non-default category c leaves, in the application state,
\* every task that referenced c in the default category, every other task in
\* its category, and c out of the category list
C3_DeleteCategoryReassigns ==
  [][(lastOp'.name = "deleteCategory" /\ ~lastOp'.rejected) =>
       /\ Len(state'.tasks) = Len(state.tasks)
       /\ \A i \in 1..Len(state.tasks) :
            /\ state'.tasks[i].id = state.tasks[i].id
            /\ state'.tasks[i].category =
                 IF state.tasks[i].category = lastOp'.category
                 THEN DEFAULT ELSE state.tasks[i].category
       /\ lastOp'.category \notin Ids(state'.categories)]_vars

\* C3 witness: a category was deleted, a task that referenced it (as the
\* persisted list still shows) is in the default category, another task kept its own
C3_Witness ==
  /\ lastOp.name = "deleteCategory" /\ ~lastOp.rejected
  /\ \E i \in 1..Len(state.tasks), j \in 1..Len(Persisted(ls)) :
        /\ state.tasks[i].id = Persisted(ls)[j].id
        /\ Persisted(ls)[j].category = lastOp.category
        /\ state.tasks[i].category = DEFAULT
  /\ \E i \in 1..Len(state.tasks), j \in 1..Len(Persisted(ls)) :
        /\ state.tasks[i].id = Persisted(ls)[j].id
        /\ Persisted(ls)[j].category # lastOp.category
        /\ state.tasks[i].category = Persisted(ls)[j].category

DeleteCategoryRoutes == {"handleDelete", "deleteCategory", "deleteCategoryFromStorage"}

\* C4: a request to delete the category 'default', through the category
\* manager, useCategories.deleteCategory or the category store, changes neither
\* the application state nor the persisted keys
C4_DeleteDefaultRejected ==
  [][(lastOp'.name \in DeleteCategoryRoutes /\ lastOp'.category = DEFAULT) =>
       (state' = state /\ ls' = ls)]_vars

\* C4 witness: the store's deleteCategory was asked to delete 'default' while
\* the category is listed
C4_Witness ==
  /\ lastOp.name = "deleteCategoryFromStorage"
  /\ lastOp.category = DEFAULT
  /\ DEFAULT \in Ids(state.categories)
  /\ DEFAULT \in Ids(managerCategories)

\* C5: in every reachable state the category list holds exactly one category
\* whose id is 'default'
C5_ExactlyOneDefault ==
  Cardinality({i \in 1..Len(state.categories) : state.categories[i].id = DEFAULT}) = 1

\* C6: in every reachable application state every task's category is the id
\* of a category of the category list
C6_NoOrphanCategory ==
  \A i \in 1..Len(state.tasks) : state.tasks[i].category \in Ids(state.categories)

StatusTransitionDone(list, id, status, completionComment) ==
  \A i \in 1..Len(list) :
     list[i].id = id =>
       /\ list[i].status = status
       /\ status = "completed" =>
            (HasCompletedAt(list[i]) /\ list[i].completionComment = completionComment)
       /\ status # "completed" => ~HasCompletedAt(list[i])

\* C8: a status transition to completed leaves the task, in the application
\* state and in the persisted list, with completedAt non-null and the comment
\* given; a transition to todo or in-progress leaves it with completedAt null
C8_StatusTransition ==
  lastOp.name = "updateTaskStatus" =>
    /\ lastOp.id \in Ids(state.tasks)
    /\ StatusTransitionDone(state.tasks, lastOp.id, lastOp.status, lastOp.comment)
    /\ StatusTransitionDone(Persisted(ls), lastOp.id, lastOp.status, lastOp.comment)

\* C8 witness: a task completed with a comment was moved back to todo, in the
\* application state and in the persisted list
C8_Witness ==
  /\ lastOp.name = "updateTaskStatus"
  /\ lastOp.status = "todo"
  /\ \E i \in 1..Len(state.tasks), j \in 1..Len(Persisted(ls)) :
        /\ state.tasks[i].id = lastOp.id
        /\ Persisted(ls)[j].id = lastOp.id
        /\ state.tasks[i].completionComment # <<>>
        /\ ~HasCompletedAt(state.tasks[i])

UserTaskOperations ==
  {"updateTaskStatus", "showCompletionForm", "updateTask", "reorderTaskList",
   "deleteCategory"}

\* C9: under start, complete, edit, reorder and category delete a task that is
\* in-progress never returns to todo and a completed task stays completed
C9_ForwardOnly ==
  [][lastOp'.name \in UserTaskOperations =>
       \A i \in 1..Len(state.tasks), j \in 1..Len(state'.tasks) :
          state.tasks[i].id = state'.tasks[j].id =>
            /\ state.tasks[i].status = "in-progress" => state'.tasks[j].status # "todo"
            /\ state.tasks[i].status = "completed" => state'.tasks[j].status = "completed"]_vars

\* C10: after a drag reorder the application state and the persisted list hold
\* the task identifiers the application state held before the drag
C10_DragKeepsTasks ==
  [][lastOp'.name = "reorderTaskList" =>
       /\ Ids(state'.tasks) = Ids(state.tasks)
       /\ Ids(Persisted(ls')) = Ids(state.tasks)]_vars

\* C11: the exported document holds the persisted task list, and importing the
\* exported document persists that list again: the same tasks with the same
\* field values in the same sequence
C11_ExportImportRoundTrip ==
  [][/\ (lastOp'.name = "exportData" /\ ~lastOp'.rejected) =>
          exported'.val.tasks.val = Persisted(ls)
     /\ (lastOp'.name = "importData" /\ exported.has /\ lastOp'.file.json
           /\ lastOp'.file.val = exported.val) =>
          /\ ~lastOp'.rejected
          /\ ls'.tasks.has /\ ls'.tasks.json
          /\ Persisted(ls') = exported.val.tasks.val]_vars

\* C11 witness: the exported document, holding several tasks one of which is
\* completed, was imported and its tasks are the persisted list
C11_Witness ==
  /\ lastOp.name = "importData" /\ ~lastOp.rejected
  /\ exported.has /\ lastOp.file = exported
  /\ Len(Persisted(ls)) >= 2
  /\ Persisted(ls) = exported.val.tasks.val
  /\ \E i \in 1..Len(Persisted(ls)) : HasCompletedAt(Persisted(ls)[i])

\* C12: importing a file that is not JSON, or whose document has no tasks field
\* or a tasks field that is not an array, is rejected and changes neither the
\* three persisted keys nor the application state, and nothing is reloaded
C12_InvalidImportRejected ==
  [][(/\ lastOp'.name = "importData"
      /\ \/ ~lastOp'.file.json
         \/ ~lastOp'.file.val.tasks.has
         \/ ~lastOp'.file.val.isArray) =>
       /\ lastOp'.rejected
       /\ ls' = ls
       /\ state' = state
       /\ <<contentTasks', itemTasks', formTasks', managerCategories'>>
            = <<contentTasks, itemTasks, formTasks, managerCategories>>]_vars

\* C12 witness: a document whose tasks field is not an array was refused while
\* the application state held tasks
C12_Witness ==
  /\ lastOp.name = "importData" /\ lastOp.rejected
  /\ lastOp.file.json
  /\ lastOp.file.val.tasks.has /\ ~lastOp.file.val.isArray
  /\ Len(state.tasks) > 0

\* C13: after the import of a valid document without a categories field the
\* persisted category list is the empty list, and without a settings field the
\* persisted settings are the empty object
C13_ImportDefaultsToEmpty ==
  (lastOp.name = "importData" /\ ~lastOp.rejected) =>
    /\ ~lastOp.file.val.categories.has => ls.categories = Stored(<<>>)
    /\ ~lastOp.file.val.settings.has => ls.settings = Stored(emptySettings)

\* C13 witness: a document with tasks alone was imported after a category of
\* the user's had been persisted; the two keys hold the empty values
C13_Witness ==
  /\ lastOp.name = "importData" /\ ~lastOp.rejected
  /\ ~lastOp.file.val.categories.has /\ ~lastOp.file.val.settings.has
  /\ categoryClock >= 1
  /\ ls.categories = Stored(<<>>) /\ ls.settings = Stored(emptySettings)

visibleTasks == filteredTasks(state)
PositionIn(list, id) == CHOOSE i \in 1..Len(list) : list[i].id = id

\* C14: the derived view applied to its own output, under the same filter,
\* show-completed flag and sort settings, yields the same tasks in the same order
C14_FilteringIdempotent ==
  filteredTasks([state EXCEPT !.tasks = visibleTasks]) = visibleTasks

\* C14 witness: under a filter set by the user the view hides a task and shows
\* the others in an order that is not the order of the task list
C14_Witness ==
  /\ lastOp.name = "setFilter"
  /\ Len(visibleTasks) >= 2
  /\ Len(visibleTasks) < Len(state.tasks)
  /\ PositionIn(state.tasks, visibleTasks[1].id) > PositionIn(state.tasks, visibleTasks[2].id)

SatisfiesFilter(task) ==
  LET filter == state.ui.filter
      query == ToLowerCase(filter.searchQuery)
  IN /\ filter.status = ALL \/ task.status = filter.status
     /\ filter.category = ALL \/ task.category = filter.category
     /\ filter.priority = ALL \/ task.priority = filter.priority
     /\ \/ Trim(filter.searchQuery) = <<>>
        \/ Includes(ToLowerCase(task.title), query)
        \/ Includes(ToLowerCase(task.description), query)
        \/ \E i \in 1..Len(task.tags) : Includes(ToLowerCase(task.tags[i]), query)
     /\ state.settings.showCompleted = "false" => task.status # "completed"

\* C15: the visible list holds exactly once each task of the application state
\* that passes the status, category, priority and search filters and is not
\* completed when show-completed is false, and holds no other task
C15_VisibleExactlyMatching ==
  /\ \A i \in 1..Len(state.tasks) :
        Cardinality({j \in 1..Len(visibleTasks) : visibleTasks[j] = state.tasks[i]})
          = IF SatisfiesFilter(state.tasks[i]) THEN 1 ELSE 0
  /\ \A j \in 1..Len(visibleTasks) : visibleTasks[j] \in Range(state.tasks)

\* C16: sorted by priority, direction desc shows no lower priority before a
\* higher one (high, medium, low); direction asc shows no higher before a lower
C16_PriorityOrder ==
  LET before(first, second) ==
        \E i, j \in 1..Len(visibleTasks) :
           i < j /\ visibleTasks[i].priority = first /\ visibleTasks[j].priority = second
      ascending == before("low", "medium") \/ before("low", "high") \/ before("medium", "high")
      descending == before("medium", "low") \/ before("high", "low") \/ before("high", "medium")
  IN state.settings.sortBy = "priority" =>
       /\ state.settings.sortOrder = "desc" => ~ascending
       /\ state.settings.sortOrder = "asc" => ~descending

\* C16 witness: after a reload the tasks A (low), B (high), sorted by priority
\* desc, are shown as B, A
C16_Witness ==
  /\ lastOp.name = "reload"
  /\ state.settings.sortBy = "priority" /\ state.settings.sortOrder = "desc"
  /\ Len(state.tasks) = 2
  /\ state.tasks[1].title = <<"A">> /\ state.tasks[1].priority = "low"
  /\ state.tasks[2].title = <<"B">> /\ state.tasks[2].priority = "high"
  /\ visibleTasks = <<state.tasks[2], state.tasks[1]>>

SameSortKey(a, b) ==
  CASE state.settings.sortBy = "title" -> a.title = b.title
    [] state.settings.sortBy = "priority" -> a.priority = b.priority
    [] state.settings.sortBy = "createdAt" -> a.createdAt = b.createdAt
    [] OTHER -> a.order = b.order

\* C17: for every sort key and direction, two visible tasks with equal sort
\* keys are shown in the relative order they have in the task list
C17_SortStable ==
  \A i, j \in 1..Len(visibleTasks) :
     (i < j /\ SameSortKey(visibleTasks[i], visibleTasks[j])) =>
       PositionIn(state.tasks, visibleTasks[i].id) < PositionIn(state.tasks, visibleTasks[j].id)

\* C17 witness: two tasks with equal sort keys are shown while the sort moved
\* a third task across them
C17_Witness ==
  /\ lastOp.name = "setFilter"
  /\ Len(visibleTasks) = 3
  /\ visibleTasks # state.tasks
  /\ \E i, j \in 1..3 : i < j /\ SameSortKey(visibleTasks[i], visibleTasks[j])

sharedTask == TaskOf(state.tasks, lastOp.id)
commentMark == <<"LF", "LF", "thought-balloon", " ">>
TextAt(text, position, part) ==
  /\ position + Len(part) - 1 <= Len(text)
  /\ SubSeq(text, position, position + Len(part) - 1) = part

\* C18: the share text starts with the status emoji, the title and the status
\* label, then holds one '#tag' per tag in tag order, then the completion
\* comment when it is included, and ends with the application hashtags
C18_ShareTextLayout ==
  lastOp.name = "shareTask" =>
    LET text == lastOp.text
        task == sharedTask
        head == statusEmoji(task.status) \o <<" ">> \o task.title \o <<" ", "-", " ">>
                  \o statusLabel(task.status)
        tail == Len(text) - Len(appHashtags) + 1
        tagEnd(q, n) == IF n = 0 THEN Len(head) ELSE q[n] + Len(task.tags[n])
    IN /\ TextAt(text, 1, head)
       /\ tail > Len(head) /\ TextAt(text, tail, appHashtags)
       /\ Cardinality({i \in 1..Len(text) : text[i] = "#"}) = Len(task.tags) + 2
       /\ \E q \in [1..Len(task.tags) -> 1..Len(text)] :
             /\ \A n \in 1..Len(task.tags) :
                   /\ q[n] > tagEnd(q, n - 1)
                   /\ TextAt(text, q[n], <<"#">> \o task.tags[n])
             /\ tagEnd(q, Len(task.tags)) < tail
             /\ Includes(text, <<"thought-balloon">>) =>
                  \E c \in 1..Len(text) :
                     /\ c > tagEnd(q, Len(task.tags))
                     /\ TextAt(text, c, commentMark \o task.completionComment)
                     /\ c + Len(commentMark) + Len(task.completionComment) = tail

\* C18 witness: a completed task with two tags and a comment was shared
C18_Witness ==
  /\ lastOp.name = "shareTask"
  /\ Len(sharedTask.tags) = 2
  /\ sharedTask.status = "completed" /\ sharedTask.completionComment # <<>>
  /\ Includes(lastOp.text, sharedTask.completionComment)

\* C19: the share text holds the comment line of the task if the task is
\* completed with a non-empty comment, and no comment line otherwise
C19_CommentOnlyWhenCompleted ==
  lastOp.name = "shareTask" =>
    IF sharedTask.status = "completed" /\ sharedTask.completionComment # <<>>
    THEN Includes(lastOp.text, commentMark \o sharedTask.completionComment)
    ELSE ~Includes(lastOp.text, <<"thought-balloon">>)

\* C19 witness: a task that is no longer completed and still carries a comment
\* was shared
C19_Witness ==
  /\ lastOp.name = "shareTask"
  /\ sharedTask.status # "completed"
  /\ sharedTask.completionComment # <<>>
  /\ ~Includes(lastOp.text, <<"thought-balloon">>)

\* C20: when the page loads, a key that is absent or whose text is not JSON
\* reads as the caller's default, any other key as its stored value
C20_ReadYieldsDefaultOrStored ==
  lastOp.name \in {"mount", "reload"} =>
    /\ state.tasks = IF ls.tasks.has /\ ls.tasks.json THEN ls.tasks.val ELSE <<>>
    /\ contentTasks = state.tasks
    /\ state.settings =
         IF ls.settings.has /\ ls.settings.json THEN ls.settings.val ELSE defaultSettings

\* C20 witness: after a reload the tasks key, whose text is not JSON, was read
\* as the empty list and the settings key as the stored settings
C20_Witness ==
  /\ lastOp.name = "reload"
  /\ ls.tasks.has /\ ~ls.tasks.json /\ state.tasks = <<>>
  /\ ls.settings.json /\ state.settings = ls.settings.val
  /\ state.settings # defaultSettings

\* C21: when the browser refuses the write, the hook returns normally, the
\* handle's value holds the new task or the new status, and the action has
\* reached the application state
C21_WriteFailureNotPropagated ==
  [][lastOp'.writeFailed =>
       /\ ~lastOp'.rejected
       /\ ls' = ls
       /\ lastOp'.name = "addTask" =>
            /\ lastOp'.id \notin Ids(contentTasks) \cup Ids(state.tasks)
            /\ lastOp'.id \in Ids(contentTasks')
            /\ lastOp'.id \in Ids(state'.tasks)
       /\ lastOp'.name = "updateTaskStatus" =>
            /\ lastOp'.id \in Ids(state'.tasks)
            /\ TaskOf(state'.tasks, lastOp'.id).status = lastOp'.status
            /\ lastOp'.id \in Ids(itemTasks[lastOp'.id]) =>
                 TaskOf(itemTasks'[lastOp'.id], lastOp'.id).status = lastOp'.status]_vars

\* C21 witness: a task was added while the write was refused: the handle and
\* the application state hold it, the persisted list does not
C21_Witness ==
  /\ lastOp.name = "addTask" /\ lastOp.writeFailed
  /\ lastOp.id \in Ids(contentTasks)
  /\ lastOp.id \in Ids(state.tasks)
  /\ lastOp.id \notin Ids(Persisted(ls))

\* C22: once the recount effect has run, every category's taskCount is the
\* number of tasks of the application state whose category is that category
C22_TaskCountDerived ==
  \A i \in 1..Len(state.categories) :
     state.categories[i].taskCount =
       Cardinality({j \in 1..Len(state.tasks) :
                      state.tasks[j].category = state.categories[i].id})

\* C22 witness: a category was deleted and the default category counts the
\* task moved to it beside its own two
C22_Witness ==
  /\ lastOp.name = "deleteCategory" /\ ~lastOp.rejected
  /\ \E i \in 1..Len(state.categories) :
        state.categories[i].id = DEFAULT /\ state.categories[i].taskCount = 3

DistinctIds(list) ==
  \A i, j \in 1..Len(list) : i # j => list[i].id # list[j].id
\* after is before with the item of this id replaced in place, or appended
SavedInto(before, after, id) ==
  IF id \in Ids(before)
  THEN /\ Len(after) = Len(before)
       /\ \A i \in 1..Len(before) :
            IF before[i].id = id THEN after[i].id = id ELSE after[i] = before[i]
  ELSE /\ Len(after) = Len(before) + 1
       /\ SubSeq(after, 1, Len(before)) = before
       /\ after[Len(after)].id = id

\* C26: a save through a handle replaces the entry of the same id in place and
\* leaves the other entries and the length alone, or appends an entry of a new
\* id; the lists of the handles and the persisted lists never hold an id twice
C26_SaveInsertsOrUpdates ==
  [][/\ (lastOp'.name = "updateTask" /\ lastOp'.id \in Ids(state.tasks)) =>
          /\ SavedInto(JSONStringify(formTasks), Persisted(ls'), lastOp'.id)
          /\ TaskOf(Persisted(ls'), lastOp'.id).title = TaskOf(state'.tasks, lastOp'.id).title
     /\ lastOp'.name = "addTask" =>
          SavedInto(JSONStringify(IF state.ui.isTaskFormOpen THEN formTasks ELSE contentTasks),
                    Persisted(ls'), lastOp'.id)
     /\ lastOp'.name \in {"addCategory", "updateCategory"} =>
          /\ SavedInto(managerCategories, managerCategories', lastOp'.category)
          /\ ls'.categories.val = managerCategories'
     /\ DistinctIds(contentTasks') /\ DistinctIds(formTasks')
     /\ \A id \in DOMAIN itemTasks' : DistinctIds(itemTasks'[id])
     /\ DistinctIds(managerCategories')
     /\ DistinctIds(Persisted(ls'))
     /\ DistinctIds(ReadStored(ls'.categories, <<>>))]_vars

\* C26 witness: the form saved an edited task whose id the persisted list held
\* before other tasks: it is still before them, with the new title
C26_Witness ==
  /\ lastOp.name = "updateTask"
  /\ lastOp.id \in Ids(Persisted(ls))
  /\ PositionIn(Persisted(ls), lastOp.id) < Len(Persisted(ls))
  /\ TaskOf(Persisted(ls), lastOp.id).title = <<"A">>
  /\ \E i \in 1..Len(Persisted(ls)) : Persisted(ls)[i].title # <<"A">>

IdKeepingOperations ==
  {"updateTask", "updateTaskStatus", "reorderTaskList", "deleteCategory"}

\* C27: the tasks of the application state have pairwise distinct ids, and an
\* edit, a status transition, a reorder or a category delete leaves every task
\* it keeps with the id and the createdAt it had
C27_IdUniqueImmutable ==
  [][/\ DistinctIds(state'.tasks)
     /\ lastOp'.name \in IdKeepingOperations =>
          /\ Ids(state'.tasks) \subseteq Ids(state.tasks)
          /\ \A i \in 1..Len(state.tasks), j \in 1..Len(state'.tasks) :
               state'.tasks[j].id = state.tasks[i].id =>
                 state'.tasks[j].createdAt = state.tasks[i].createdAt]_vars

\* C27 witness: a task created in this session, beside loaded ones, was edited
\* through the form and has the id and the createdAt of its creation
C27_Witness ==
  /\ lastOp.name = "updateTask"
  /\ Len(state.tasks) >= 3
  /\ lastOp.id \in Ids(state.tasks)
  /\ TaskOf(state.tasks, lastOp.id).createdAt = NewDate(lastOp.id)
  /\ TaskOf(state.tasks, lastOp.id).title = <<"A">>

HandleWrites == {"addTask", "updateTask", "updateTaskStatus", "deleteTask"}

\* C28: a write through one handle keeps every task the persisted list held
\* (but the task a delete names) and the status of every task it is not about
C28_NoLostWrites ==
  [][lastOp'.name \in HandleWrites =>
       \A i \in 1..Len(Persisted(ls)) :
          LET task == Persisted(ls)[i]
          IN \/ lastOp'.name = "deleteTask" /\ lastOp'.id = task.id
             \/ /\ task.id \in Ids(Persisted(ls'))
                /\ lastOp'.id # task.id =>
                     TaskOf(Persisted(ls'), task.id).status = task.status]_vars

\* C29: when the page is reloaded after the deletion of a category, no loaded
\* task has the deleted category
C29_ReassignmentDurable ==
  [][(lastOp.name = "deleteCategory" /\ ~lastOp.rejected /\ lastOp'.name = "reload") =>
       \A i \in 1..Len(state'.tasks) : state'.tasks[i].category # lastOp.category]_vars

\* C30: after a reorder every task of the application state has its index in
\* the reordered list as order, and the persisted list holds the same orders
C30_ReorderSetsOrder ==
  lastOp.name = "reorderTaskList" =>
    /\ \A i \in 1..Len(state.tasks) : state.tasks[i].order = i - 1
    /\ Len(Persisted(ls)) = Len(state.tasks)
    /\ \A i \in 1..Len(state.tasks) :
          /\ Persisted(ls)[i].id = state.tasks[i].id
          /\ Persisted(ls)[i].order = state.tasks[i].order

categoryFormSubmissions == {"submitCategoryForm", "addCategory", "updateCategory"}

\* C23: the category names of the application state are pairwise distinct,
\* non-empty and at most 50 characters long; a submission of the category form
\* whose trimmed name is empty, longer than 50 characters or the name of
\* another category is rejected and changes neither the application state nor
\* the persisted categories
C23_CategoryNamesValid ==
  [][/\ \A i \in 1..Len(state'.categories) :
          /\ state'.categories[i].name # <<>>
          /\ Len(state'.categories[i].name) <= 50
          /\ \A j \in 1..Len(state'.categories) :
               i # j => state'.categories[i].name # state'.categories[j].name
     /\ lastOp'.name \in categoryFormSubmissions =>
          LET name == Trim(lastOp'.text)
              taken == \E i \in 1..Len(state.categories) :
                          /\ state.categories[i].name = name
                          /\ editingCategory # <<>> =>
                               state.categories[i].id # editingCategory[1].id
          IN (name = <<>> \/ Len(name) > 50 \/ taken) =>
               /\ lastOp'.rejected
               /\ state' = state
               /\ ls'.categories = ls.categories]_vars

\* C23 witness: a category was renamed to a name of 50 characters while another
\* category is listed
C23_Witness ==
  /\ lastOp.name = "updateCategory"
  /\ Len(state.categories) >= 2
  /\ \E i \in 1..Len(state.categories) :
        /\ state.categories[i].id = lastOp.category
        /\ Len(state.categories[i].name) = 50

\* C24: a submission of the task form whose title is blank or longer than 100
\* characters, or whose description is longer than 500 characters, changes
\* neither the application state nor the persisted list and leaves the form
\* open; a task the form created or edited has a title of 1 to 100 characters
\* and a description of at most 500
C24_TaskFormValidated ==
  [][lastOp'.form # <<>> =>
       LET formData == lastOp'.form[1]
       IN IF \/ Trim(formData.title) = <<>>
             \/ Len(formData.title) > 100
             \/ Len(formData.description) > 500
          THEN /\ lastOp'.rejected
               /\ state' = state
               /\ ls' = ls
               /\ state'.ui.isTaskFormOpen
          ELSE \A list \in {state'.tasks, Persisted(ls')} :
                  \A i \in 1..Len(list) :
                     list[i].id = lastOp'.id =>
                       /\ Len(list[i].title) \in 1..100
                       /\ Len(list[i].description) <= 500]_vars

\* C24 witness: the form created a task with a title of 100 characters and a
\* description of 500
C24_Witness ==
  /\ lastOp.name = "addTask" /\ lastOp.form # <<>>
  /\ lastOp.id \in Ids(state.tasks)
  /\ Len(TaskOf(state.tasks, lastOp.id).title) = 100
  /\ Len(TaskOf(state.tasks, lastOp.id).description) = 500
  /\ lastOp.id \in Ids(Persisted(ls))

\* C25: the tag list of the open task form has at most 10 entries, no entry
\* twice and no blank entry; an add of a blank tag, of a tag the list holds, or
\* to a list of 10 tags leaves the list as it is
C25_FormTagsSetLike ==
  [][/\ Len(formTags') <= 10
     /\ \A i \in 1..Len(formTags') :
          /\ Trim(formTags'[i]) # <<>>
          /\ \A j \in 1..Len(formTags') : i # j => formTags'[i] # formTags'[j]
     /\ (/\ lastOp'.name = "addTag"
         /\ \/ Trim(lastOp'.text) = <<>>
            \/ Trim(lastOp'.text) \in Range(formTags)
            \/ Len(formTags) >= 10) => formTags' = formTags]_vars

\* C25 witness: a tenth tag was added to the form, after a tag had been removed
\* or to a task of nine tags
C25_Witness ==
  /\ lastOp.name = "addTag"
  /\ Len(formTags) = 10
  /\ formTags[10] = Trim(lastOp.text)

\* a's sort key is at most b's: titles in dictionary order, priorities as
\* low < medium < high, creation times, orders
SortKeyAtMost(a, b) ==
  LET rank(p) == CASE p = "low" -> 1 [] p = "medium" -> 2 [] OTHER -> 3
  IN CASE state.settings.sortBy = "title" -> LocaleCompare(a.title, b.title) <= 0
       [] state.settings.sortBy = "priority" -> rank(a.priority) <= rank(b.priority)
       [] state.settings.sortBy = "createdAt" -> GetTime(a.createdAt) <= GetTime(b.createdAt)
       [] OTHER -> a.order <= b.order

\* C31: for every sort key, direction asc shows the visible tasks with keys
\* that never decrease and direction desc with keys that never increase
C31_SortDirectionConsistent ==
  \A i, j \in 1..Len(visibleTasks) :
     i < j =>
       /\ state.settings.sortOrder = "asc" => SortKeyAtMost(visibleTasks[i], visibleTasks[j])
       /\ state.settings.sortOrder = "desc" => SortKeyAtMost(visibleTasks[j], visibleTasks[i])

C37_FilterCategoryExists ==
  lastOp.name = "deleteCategory" /\ ~lastOp.rejected =>
    \/ state.ui.filter.category = ALL
    \/ state.ui.filter.category \in Ids(state.categories)

TaskActionTypes ==
  {"SET_TASKS", "ADD_TASK", "UPDATE_TASK", "DELETE_TASK", "REORDER_TASKS",
   "UPDATE_TASK_STATUS"}
CategoryActionTypes ==
  {"SET_CATEGORIES", "ADD_CATEGORY", "UPDATE_CATEGORY", "DELETE_CATEGORY"}
SettingsActionTypes == {"SET_SETTINGS", "UPDATE_SETTINGS"}
UiActionTypes ==
  {"SET_UI_STATE", "OPEN_TASK_FORM", "CLOSE_TASK_FORM", "OPEN_CATEGORY_MANAGER",
   "CLOSE_CATEGORY_MANAGER", "SET_FILTER"}
\* the action the last step dispatched, if it dispatched one
Dispatched(op) == Range(op.action)

\* C33: a task action leaves categories, settings and UI as they are and
\* changes only the addressed task (nothing when no task has the id); a
\* category action leaves tasks, settings and UI, a settings action leaves
\* tasks, categories and UI, a modal or filter action leaves tasks, categories
\* and settings; SET_FILTER keeps the filter fields its payload leaves out
C33_ReducerFrame ==
  [][\A a \in Dispatched(lastOp') :
       /\ a.type \in TaskActionTypes =>
            /\ state'.categories = state.categories
            /\ state'.settings = state.settings
            /\ state'.ui = state.ui
       /\ a.type \in {"UPDATE_TASK", "UPDATE_TASK_STATUS"} =>
            /\ Len(state'.tasks) = Len(state.tasks)
            /\ \A i \in 1..Len(state.tasks) :
                  state.tasks[i].id # a.payload.id => state'.tasks[i] = state.tasks[i]
       /\ a.type = "DELETE_TASK" =>
            state'.tasks = SelectSeqBy(state.tasks,
                                       {t \in Range(state.tasks) : t.id # a.payload})
       /\ a.type = "ADD_TASK" =>
            state'.tasks = Append(state.tasks, a.payload)
       /\ a.type \in CategoryActionTypes =>
            /\ state'.tasks = state.tasks
            /\ state'.settings = state.settings
            /\ state'.ui = state.ui
       /\ a.type \in SettingsActionTypes =>
            /\ state'.tasks = state.tasks
            /\ state'.categories = state.categories
            /\ state'.ui = state.ui
       /\ a.type \in UiActionTypes =>
            /\ state'.tasks = state.tasks
            /\ state'.categories = state.categories
            /\ state'.settings = state.settings
       /\ a.type = "SET_FILTER" =>
            \A f \in DOMAIN state.ui.filter \ DOMAIN a.payload :
               state'.ui.filter[f] = state.ui.filter[f]]_vars

\* C33 witness: SET_FILTER was dispatched with a payload that leaves out a
\* field whose value is not the initial one
C33_Witness ==
  /\ lastOp.name = "dispatch"
  /\ \E a \in Dispatched(lastOp) :
        /\ a.type = "SET_FILTER"
        /\ \E f \in DOMAIN state.ui.filter \ DOMAIN a.payload :
              state.ui.filter[f] # initialUIState.filter[f]

\* C34: editingTask is set only while the task form is open; closing the form
\* clears it, opening the form without a task clears it, and opening or
\* closing one modal changes neither the other modal's flag nor the filter
C34_ModalStateConsistent ==
  [][/\ state'.ui.editingTask # <<>> => state'.ui.isTaskFormOpen
     /\ \A a \in Dispatched(lastOp') :
          /\ a.type = "CLOSE_TASK_FORM" =>
               ~state'.ui.isTaskFormOpen /\ state'.ui.editingTask = <<>>
          /\ a.type = "OPEN_TASK_FORM" =>
               state'.ui.isTaskFormOpen /\ state'.ui.editingTask = a.payload
          /\ a.type \in {"OPEN_TASK_FORM", "CLOSE_TASK_FORM"} =>
               /\ state'.ui.isCategoryManagerOpen = state.ui.isCategoryManagerOpen
               /\ state'.ui.filter = state.ui.filter
          /\ a.type \in {"OPEN_CATEGORY_MANAGER", "CLOSE_CATEGORY_MANAGER"} =>
               /\ state'.ui.isCategoryManagerOpen = (a.type = "OPEN_CATEGORY_MANAGER")
               /\ state'.ui.isTaskFormOpen = state.ui.isTaskFormOpen
               /\ state'.ui.editingTask = state.ui.editingTask
               /\ state'.ui.filter = state.ui.filter]_vars

\* C34 witness: the form was closed while the category manager is open and a
\* filter is set
C34_Witness ==
  /\ lastOp.name = "useUI"
  /\ closeTaskForm \in Dispatched(lastOp)
  /\ state.ui.isCategoryManagerOpen
  /\ state.ui.filter # initialUIState.filter
  /\ state.ui.editingTask = <<>>

StatusFields(task) ==
  [id |-> task.id, status |-> task.status, completionComment |-> task.completionComment,
   completed |-> HasCompletedAt(task)]

\* C35: for the task list of the state and any id, status and comment (also an
\* omitted one), the store's updateTaskStatus and the reducer's
\* UPDATE_TASK_STATUS give lists that agree in every task's status,
\* completionComment and completedAt being set, and both leave the tasks with
\* other ids as they were
C35_StatusTransitionsAgree ==
  [][\A a \in Dispatched(lastOp') :
       a.type = "UPDATE_TASK_STATUS" =>
         LET stored == updateTaskStatusInStorage(
                         state.tasks, a.payload.id, a.payload.status,
                         completionCommentDefault(a.payload.completionComment),
                         clock + 1).value
         IN /\ Len(stored) = Len(state'.tasks)
            /\ \A i \in 1..Len(stored) :
                  /\ StatusFields(stored[i]) = StatusFields(state'.tasks[i])
                  /\ state.tasks[i].id # a.payload.id =>
                       stored[i] = state.tasks[i] /\ state'.tasks[i] = state.tasks[i]]_vars

\* C35 witness: a task among others was completed with the comment omitted
C35_Witness ==
  /\ lastOp.name = "dispatch"
  /\ Len(state.tasks) >= 2
  /\ \E a \in Dispatched(lastOp) :
        /\ a.type = "UPDATE_TASK_STATUS"
        /\ a.payload.status = "completed"
        /\ a.payload.completionComment = UndefinedString
        /\ a.payload.id \in Ids(state.tasks)

\* C36: once the task-count effect has dispatched SET_CATEGORIES, it detects no
\* change and dispatches nothing further
C36_RecountSettles ==
  lastOp.name = "recount" => ~hasChanges(state)

\* C36 witness: the effect has run over tasks in a category of the user's
C36_Witness ==
  /\ lastOp.name = "recount"
  /\ \E i \in 1..Len(state.categories) :
        state.categories[i].id # DEFAULT /\ state.categories[i].taskCount > 0

====
